---- MODULE Spec2Model ----
(***************************************************************************)
(* Model of hep_ml.losses (loss functions for gradient boosting) and       *)
(* hep_ml.experiments.reweight (BinsReweighter, GBReweighter).             *)
(*                                                                         *)
(* One estimator instance is modelled at a time.  `python` is the major    *)
(* version of the interpreter, `cls` is the class of the instance,          *)
(* `self` is its attribute dictionary (a record: an attribute that was     *)
(* never assigned is absent from DOMAIN self, and reading it raises        *)
(* AttributeError), `train` is the data set the trainer handed to the last *)
(* fit, and `call` is the call whose result the caller has not taken yet   *)
(* (its name, arguments, outcome and result), or Idle.                     *)
(*                                                                         *)
(* Floating point numbers are modelled as exact rationals <<num, den>>     *)
(* extended with the IEEE values nan = <<0,0>>, inf = <<1,0>> and          *)
(* -inf = <<-1,0>>.  numpy.exp is modelled on (half-)integers as a power   *)
(* of SqrtExpBase, which keeps exp(a+b) = exp(a)*exp(b), positivity and    *)
(* monotonicity.                                                           *)
(***************************************************************************)
EXTENDS Integers, Sequences, FiniteSets, TLC

VARIABLES python, cls, self, train, call

vars == <<python, cls, self, train, call>>

(***************************************************************************)
(* Bounds of the model.                                                    *)
(***************************************************************************)
MaxN == 2
MaxLeaves == 2
MaxNRank == 2
MaxNKnn == 2
MaxNRw == 2

(***************************************************************************)
(* Input alphabets.                                                        *)
(***************************************************************************)
Labels == {0, 1}
PosWeights == {1, 2}
SignedWeights == {-1, 0, 1, 2}
PredVals == {-1, 0, 1}
ResidualVals == {-1, 2}
LeafPredVals == {0, 1}

None == <<>>
Some(v) == <<v>>

(***************************************************************************)
(* Exact rational arithmetic standing for float arithmetic.                *)
(***************************************************************************)
Abs(x) == IF x < 0 THEN -x ELSE x

RECURSIVE GCD(_, _)
GCD(a, b) == IF b = 0 THEN a ELSE GCD(b, a % b)

RNorm(n, d) ==
    IF d = 0 THEN <<(IF n > 0 THEN 1 ELSE IF n < 0 THEN -1 ELSE 0), 0>>
    ELSE LET g == GCD(Abs(n), Abs(d))
             s == IF d < 0 THEN -1 ELSE 1
         IN  <<(s * n) \div g, (s * d) \div g>>

RInt(i) == <<i, 1>>
NaN == <<0, 0>>
IsFinite(r) == r[2] # 0
IsNaN(r) == r = NaN

RNeg(a) == <<-a[1], a[2]>>
RAdd(a, b) ==
    IF IsFinite(a) /\ IsFinite(b) THEN RNorm(a[1] * b[2] + b[1] * a[2], a[2] * b[2])
    ELSE IF IsNaN(a) \/ IsNaN(b) THEN NaN
    ELSE IF ~IsFinite(a) /\ ~IsFinite(b) THEN (IF a = b THEN a ELSE NaN)
    ELSE IF ~IsFinite(a) THEN a ELSE b
RSub(a, b) == RAdd(a, RNeg(b))
RSign(a) == IF a[1] > 0 THEN 1 ELSE IF a[1] < 0 THEN -1 ELSE 0
RMul(a, b) ==
    IF IsFinite(a) /\ IsFinite(b) THEN RNorm(a[1] * b[1], a[2] * b[2])
    ELSE IF IsNaN(a) \/ IsNaN(b) \/ a[1] = 0 \/ b[1] = 0 THEN NaN
    ELSE <<RSign(a) * RSign(b), 0>>
RDiv(a, b) ==
    IF IsFinite(a) /\ IsFinite(b) THEN RNorm(a[1] * b[2], a[2] * b[1])
    ELSE IF IsFinite(a) /\ ~IsNaN(b) THEN RInt(0)
    ELSE IF IsFinite(b) /\ ~IsNaN(a) THEN <<RSign(a) * (IF b[1] < 0 THEN -1 ELSE 1), 0>>
    ELSE NaN
RLt(a, b) == IsFinite(a) /\ IsFinite(b) /\ a[1] * b[2] < b[1] * a[2]
RLe(a, b) == IsFinite(a) /\ IsFinite(b) /\ a[1] * b[2] <= b[1] * a[2]
RPos(a) == IsFinite(a) /\ a[1] > 0

RECURSIVE Pow(_, _)
Pow(b, k) == IF k = 0 THEN 1 ELSE b * Pow(b, k - 1)

(***************************************************************************)
(* numpy helpers on vectors (sequences indexed 1..n; event i of the code   *)
(* is element i+1).                                                        *)
(***************************************************************************)
SqrtExpBase == 2

\* numpy.exp(k / 2) for an integer k
ExpHalf(k) == IF k >= 0 THEN RInt(Pow(SqrtExpBase, k)) ELSE <<1, Pow(SqrtExpBase, -k)>>
\* numpy.exp(k) for an integer k
Exp(k) == ExpHalf(2 * k)
\* scipy.special.expit(k) = 1 / (1 + exp(-k))
Expit(k) == RDiv(RInt(1), RAdd(RInt(1), Exp(-k)))

Vec(n, S) == [1..n -> S]
VecMap(v, F(_)) == [i \in DOMAIN v |-> F(v[i])]
Range(f) == {f[i] : i \in DOMAIN f}
Injective(f) == \A i, j \in DOMAIN f : f[i] = f[j] => i = j

RECURSIVE SumUpTo(_, _)
SumUpTo(v, k) == IF k = 0 THEN RInt(0) ELSE RAdd(SumUpTo(v, k - 1), v[k])
\* numpy.sum of a vector of rationals
NpSum(v) == SumUpTo(v, Len(v))
\* numpy.mean of a vector of rationals (0/0 = nan on an empty vector)
NpMean(v) == RDiv(NpSum(v), RInt(Len(v)))

RECURSIVE BincountUpTo(_, _, _, _)
BincountUpTo(x, weights, length, k) ==
    IF k = 0 THEN [b \in 1..length |-> RInt(0)]
    ELSE LET acc == BincountUpTo(x, weights, length, k - 1)
         IN  [acc EXCEPT ![x[k] + 1] = RAdd(@, weights[k])]
RECURSIVE SeqMax(_, _)
SeqMax(x, k) == IF k = 0 THEN -1 ELSE LET m == SeqMax(x, k - 1) IN IF x[k] > m THEN x[k] ELSE m
\* numpy.bincount(x, weights=weights, minlength=minlength): the result has
\* max(minlength, max(x) + 1) cells
Bincount(x, weights, minlength) ==
    LET top == SeqMax(x, Len(x)) + 1
        length == IF minlength > top THEN minlength ELSE top
    IN  BincountUpTo(x, weights, length, Len(x))

RECURSIVE SetSumOf(_, _)
\* numpy.sum(v[mask]) for the mask S
SetSumOf(v, S) ==
    IF S = {} THEN RInt(0)
    ELSE LET i == CHOOSE x \in S : \A z \in S : x <= z IN RAdd(v[i], SetSumOf(v, S \ {i}))

HasAttr(obj, name) == name \in DOMAIN obj
SetAttr(obj, name, value) == (name :> value) @@ obj

Raise(obj, exc) == [self |-> obj, status |-> "raise", value |-> exc, warnings |-> <<>>]
Return(obj, v) == [self |-> obj, status |-> "return", value |-> v, warnings |-> <<>>]
\* warnings.warn(..., category) on the way to the result r
Warned(r, category) == [r EXCEPT !.warnings = Append(@, category)]
HasAll(obj, names) == \A a \in names : HasAttr(obj, a)

RatVec(v) == [i \in DOMAIN v |-> RInt(v[i])]
\* 2 * y - 1
YSigned(y) == [i \in DOMAIN y |-> 2 * y[i] - 1]

(***************************************************************************)
(* HessianLossFunction                                                     *)
(***************************************************************************)
DefaultRegularization == 5
Epsilon == <<1, 100>>

\* HessianLossFunction.__init__
HessianInit(regularization) == [regularization |-> regularization]

\* HessianLossFunction.fit: the attributes after the call
HessianFit(obj, sample_weight) ==
    SetAttr(obj, "regularization_", RMul(obj.regularization, NpMean(sample_weight)))

(***************************************************************************)
(* AdaLossFunction                                                         *)
(***************************************************************************)
AdaFit(obj, y, sample_weight) ==
    LET s1 == SetAttr(obj, "y", y)
        s2 == SetAttr(s1, "sample_weight", sample_weight)
        s3 == SetAttr(s2, "y_signed", YSigned(y))
    IN  Return(HessianFit(s3, sample_weight), "self")

AdaCall(obj, y_pred) ==
    NpSum([i \in DOMAIN y_pred |->
             RMul(obj.sample_weight[i], Exp(-obj.y_signed[i] * y_pred[i]))])

AdaNegativeGradient(obj, y_pred) ==
    [i \in DOMAIN y_pred |->
       RMul(RInt(obj.y_signed[i]),
            RMul(obj.sample_weight[i], Exp(-obj.y_signed[i] * y_pred[i])))]

AdaHessian(obj, y_pred) ==
    [i \in DOMAIN y_pred |-> RMul(obj.sample_weight[i], Exp(-obj.y_signed[i] * y_pred[i]))]

(***************************************************************************)
(* MSELossFunction                                                         *)
(***************************************************************************)
MSEFit(obj, y, sample_weight) ==
    LET s1 == SetAttr(obj, "y", y)
        s2 == SetAttr(s1, "sample_weight", sample_weight)
    IN  Return(s2, "None")

MSECall(obj, y_pred) ==
    RMul(<<1, 2>>,
         NpSum([i \in DOMAIN y_pred |->
                  RMul(obj.sample_weight[i],
                       RInt((obj.y[i] - y_pred[i]) * (obj.y[i] - y_pred[i])))]))

MSENegativeGradient(obj, y_pred) ==
    [i \in DOMAIN y_pred |-> RMul(obj.sample_weight[i], RInt(obj.y[i] - y_pred[i]))]

MSEHessian(obj, y_pred) == obj.sample_weight

(***************************************************************************)
(* LogLossFunction                                                         *)
(***************************************************************************)
LogFit(obj, y, sample_weight) ==
    LET s1 == SetAttr(obj, "y", y)
        s2 == SetAttr(s1, "sample_weight", sample_weight)
        s3 == SetAttr(s2, "y_signed", YSigned(y))
        s4 == SetAttr(s3, "adjusted_regularization",
                      RMul(NpMean(sample_weight), obj.regularization))
    IN  Return(HessianFit(s4, sample_weight), "self")

LogNegativeGradient(obj, y_pred) ==
    [i \in DOMAIN y_pred |->
       RMul(RInt(obj.y_signed[i]),
            RMul(obj.sample_weight[i], Expit(-obj.y_signed[i] * y_pred[i])))]

LogHessian(obj, y_pred) ==
    [i \in DOMAIN y_pred |->
       LET expits == Expit(obj.y_signed[i] * y_pred[i])
       IN  RMul(RMul(obj.sample_weight[i], expits), RSub(RInt(1), expits))]

(***************************************************************************)
(* CompositeLossFunction                                                   *)
(***************************************************************************)
CompositeFit(obj, y, sample_weight) ==
    LET s1 == SetAttr(obj, "y", y)
        s2 == SetAttr(s1, "sample_weight", sample_weight)
        s3 == SetAttr(s2, "y_signed", YSigned(y))
        s4 == SetAttr(s3, "sig_w",
                      [i \in DOMAIN y |-> IF y[i] = 1 THEN sample_weight[i] ELSE RInt(0)])
        s5 == SetAttr(s4, "bck_w",
                      [i \in DOMAIN y |-> IF y[i] = 0 THEN sample_weight[i] ELSE RInt(0)])
    IN  Return(HessianFit(s5, sample_weight), "self")

CompositeNegativeGradient(obj, y_pred) ==
    [i \in DOMAIN y_pred |->
       RSub(RMul(obj.sig_w[i], Expit(-y_pred[i])),
            RMul(<<1, 2>>, RMul(obj.bck_w[i], ExpHalf(y_pred[i]))))]

CompositeHessian_HalfRate(obj, y_pred) ==
    [i \in DOMAIN y_pred |->
       LET expits == Expit(-y_pred[i])
       IN  RAdd(RMul(RMul(obj.sig_w[i], expits), RSub(RInt(1), expits)),
                RMul(obj.bck_w[i], RMul(<<1, 2>>, ExpHalf(y_pred[i]))))]

CompositeHessian(obj, y_pred) ==
    [i \in DOMAIN y_pred |->
       LET expits == Expit(-y_pred[i])
       IN  RAdd(RMul(RMul(obj.sig_w[i], expits), RSub(RInt(1), expits)),
                RMul(obj.bck_w[i], RMul(<<1, 4>>, ExpHalf(y_pred[i]))))]


(***************************************************************************)
(* AbstractMatrixLossFunction and KnnAdaLossFunction.                      *)
(* A matrix is a sequence of rows, a row a vector of rationals.            *)
(***************************************************************************)
\* M.dot(v)
MatDot(M, v) ==
    [r \in DOMAIN M |-> NpSum([c \in DOMAIN v |-> RMul(M[r][c], v[c])])]
\* M.transpose() for a matrix with ncols columns
Transpose(M, ncols) ==
    [c \in 1..ncols |-> [r \in DOMAIN M |-> M[r][c]]]
\* M.multiply(M): elementwise square
ElementwiseSquare(M) ==
    [r \in DOMAIN M |-> [c \in DOMAIN M[r] |-> RMul(M[r][c], M[r][c])]]

\* numpy.exp of a rational that is a multiple of 1/2
ExpRat(r) == ExpHalf((2 * r[1]) \div r[2])

\* numpy.where(mask)[0] for mask = (trainY == label): the events of the label,
\* in data order
RECURSIVE WhereUpTo(_, _, _)
WhereUpTo(trainY, label, k) ==
    IF k = 0 THEN <<>>
    ELSE IF trainY[k] = label THEN Append(WhereUpTo(trainY, label, k - 1), k)
    ELSE WhereUpTo(trainY, label, k - 1)
Where(trainY, label) == WhereUpTo(trainY, label, Len(trainY))

\* KnnAdaLossFunction.__init__ (AbstractMatrixLossFunction.__init__ included)
KnnAdaInit(uniform_label, knn, distinguish_classes, row_norm) ==
    [knn |-> knn, distinguish_classes |-> distinguish_classes, row_norm |-> row_norm,
     uniform_label |-> uniform_label, A |-> None, A_t |-> None, w |-> None,
     regularization |-> RInt(DefaultRegularization)]

KnnUniformPart_OwnRowWeight(obj, knn_indices, trainY, trainW, label) ==
    LET events == Where(trainY, label)
        n == Len(trainY)
        value == RDiv(obj.row_norm, RInt(obj.knn))
    IN  [A |-> [k \in DOMAIN events |->
                  [c \in 1..n |->
                     NpSum([j \in 1..obj.knn |->
                              IF knn_indices[events[k]][j] = c THEN value ELSE RInt(0)])]],
         w |-> [k \in DOMAIN events |-> trainW[k]]]

\* first loop of compute_parameters: the rows and weights of one uniform label
KnnUniformPart(obj, knn_indices, trainY, trainW, label) ==
    LET events == Where(trainY, label)
        n == Len(trainY)
        value == RDiv(obj.row_norm, RInt(obj.knn))
    IN  [A |-> [k \in DOMAIN events |->
                  [c \in 1..n |->
                     NpSum([j \in 1..obj.knn |->
                              IF knn_indices[events[k]][j] = c THEN value ELSE RInt(0)])]],
         w |-> [k \in DOMAIN events |->
                  NpMean([j \in 1..obj.knn |-> trainW[knn_indices[events[k]][j]]])]]

KnnOtherPart_LocalColumn(obj, trainY, trainW, label) ==
    LET events == Where(trainY, label)
        n == Len(trainY)
    IN  [A |-> [k \in DOMAIN events |->
                  [c \in 1..n |-> IF c = k THEN obj.row_norm ELSE RInt(0)]],
         w |-> [k \in DOMAIN events |-> trainW[events[k]]]]

\* second loop of compute_parameters: identity rows of a label that is not uniform
KnnOtherPart(obj, trainY, trainW, label) ==
    LET events == Where(trainY, label)
        n == Len(trainY)
    IN  [A |-> [k \in DOMAIN events |->
                  [c \in 1..n |-> IF c = events[k] THEN obj.row_norm ELSE RInt(0)]],
         w |-> [k \in DOMAIN events |-> trainW[events[k]]]]

\* the labels of set(trainY) - set(uniform_label), in increasing order
OtherLabels(obj, trainY) ==
    LET others == {trainY[i] : i \in DOMAIN trainY}
                    \ {obj.uniform_label[j] : j \in DOMAIN obj.uniform_label}
    IN  IF others = {} THEN <<>>
        ELSE IF Cardinality(others) = 1 THEN <<CHOOSE l \in others : TRUE>>
        ELSE <<0, 1>>

RECURSIVE KnnStack(_, _, _, _, _, _)
\* sparse.vstack / numpy.concatenate of the parts of the labels in `order`
KnnStack(obj, knn_indices, trainY, trainW, order, uniform) ==
    IF order = <<>> THEN [A |-> <<>>, w |-> <<>>]
    ELSE LET rest == KnnStack(obj, knn_indices, trainY, trainW,
                              SubSeq(order, 1, Len(order) - 1), uniform)
             label == order[Len(order)]
             part == IF uniform
                     THEN KnnUniformPart(obj, knn_indices, trainY, trainW, label)
                     ELSE KnnOtherPart(obj, trainY, trainW, label)
         IN  [A |-> rest.A \o part.A, w |-> rest.w \o part.w]

\* KnnAdaLossFunction.compute_parameters
KnnAdaComputeParameters(obj, knn_indices, trainY, trainW) ==
    LET first == KnnStack(obj, knn_indices, trainY, trainW, obj.uniform_label, TRUE)
        second == KnnStack(obj, knn_indices, trainY, trainW, OtherLabels(obj, trainY), FALSE)
    IN  [A |-> first.A \o second.A, w |-> first.w \o second.w]

\* AbstractMatrixLossFunction.fit
MatrixFit(obj, knn_indices, y, sample_weight) ==
    LET params == KnnAdaComputeParameters(obj, knn_indices, y, sample_weight)
        n == Len(y)
    IN  IF Len(params.A) # n THEN Raise(obj, "AssertionError")
        ELSE LET s1 == SetAttr(obj, "A", params.A)
                 s2 == SetAttr(s1, "A_t", Transpose(params.A, n))
                 s3 == SetAttr(s2, "A_t_sq", ElementwiseSquare(Transpose(params.A, n)))
                 s4 == SetAttr(s3, "w", params.w)
                 s5 == SetAttr(s4, "y_signed", YSigned(y))
             IN  Return(HessianFit(s5, sample_weight), "self")

\* numpy.exp(- self.A.dot(self.y_signed * y_pred))
MatrixExponents(obj, y_pred) ==
    LET margin == MatDot(obj.A, [i \in DOMAIN y_pred |-> RInt(obj.y_signed[i] * y_pred[i])])
    IN  [r \in DOMAIN margin |-> ExpRat(RNeg(margin[r]))]

\* AbstractMatrixLossFunction.__call__
MatrixCall(obj, y_pred) ==
    LET exponents == MatrixExponents(obj, y_pred)
    IN  NpSum([r \in DOMAIN exponents |-> RMul(obj.w[r], exponents[r])])

\* AbstractMatrixLossFunction.negative_gradient
MatrixNegativeGradient(obj, y_pred) ==
    LET exponents == MatrixExponents(obj, y_pred)
        result == MatDot(obj.A_t, [r \in DOMAIN exponents |-> RMul(obj.w[r], exponents[r])])
    IN  [i \in DOMAIN result |-> RMul(result[i], RInt(obj.y_signed[i]))]

\* AbstractMatrixLossFunction.hessian
MatrixHessian(obj, y_pred) ==
    LET exponents == MatrixExponents(obj, y_pred)
    IN  MatDot(obj.A_t_sq, [r \in DOMAIN exponents |-> RMul(obj.w[r], exponents[r])])


(***************************************************************************)
(* RankBoostLossFunction: construction and fit.                            *)
(***************************************************************************)
RankBoostRegularization == <<1, 10>>

\* RankBoostLossFunction.__init__
RankBoostInit(messup_penalty, update_iterations) ==
    [update_terations |-> update_iterations, messup_penalty |-> messup_penalty,
     request_column |-> "query", regularization |-> RankBoostRegularization]

RECURSIVE SortedSeq(_)
SortedSeq(S) ==
    IF S = {} THEN <<>>
    ELSE LET m == CHOOSE x \in S : \A z \in S : x <= z
         IN  <<m>> \o SortedSeq(S \ {m})
PositionIn(sorted, v) == CHOOSE k \in DOMAIN sorted : sorted[k] = v
\* numpy.unique(values, return_inverse=True)
Unique(values) ==
    LET possible == SortedSeq({values[i] : i \in DOMAIN values})
    IN  [possible |-> possible,
         normed |-> [i \in DOMAIN values |-> PositionIn(possible, values[i]) - 1]]

\* the (r1, r2) pairs of the double loop of fit, in iteration order
RankPairs(possible_ranks) ==
    LET k == Len(possible_ranks)
    IN  [p \in 1..(k * k) |-> <<possible_ranks[((p - 1) \div k) + 1],
                                 possible_ranks[((p - 1) % k) + 1]>>]

\* position of index r in an axis of k cells, numpy style: negative indices count
\* from the end; 0 when r is out of range (IndexError)
NpIndex(r, k) ==
    IF r >= 0 /\ r < k THEN r + 1
    ELSE IF r < 0 /\ r >= -k THEN r + k + 1
    ELSE 0

RECURSIVE RankPenaltiesUpTo(_, _, _)
\* the double loop of fit over the first p pairs: the matrix so far and whether
\* an exception ended the loop
RankPenaltiesUpTo(obj, possible_ranks, p) ==
    LET k == Len(possible_ranks)
    IN  IF p = 0
        THEN [M |-> [a \in 1..k |-> [b \in 1..k |-> RInt(0)]], status |-> "ok"]
        ELSE LET before == RankPenaltiesUpTo(obj, possible_ranks, p - 1)
                 r1 == RankPairs(possible_ranks)[p][1]
                 r2 == RankPairs(possible_ranks)[p][2]
                 i1 == NpIndex(r1, k)
                 i2 == NpIndex(r2, k)
             IN  IF before.status # "ok" \/ ~(r1 < r2) THEN before
                 ELSE IF obj.messup_penalty \notin {"square", "linear"}
                      THEN [M |-> before.M, status |-> "NotImplementedError"]
                 ELSE IF i1 = 0 \/ i2 = 0
                      THEN [M |-> before.M, status |-> "IndexError"]
                 ELSE [M |-> [before.M EXCEPT ![i1][i2] =
                                 IF obj.messup_penalty = "square"
                                 THEN RInt((r2 - r1) * (r2 - r1))
                                 ELSE RInt(r2 - r1)],
                       status |-> "ok"]

\* numpy.bincount(normed_queries): events per query
QueryCounts(normed_queries, nq) ==
    [q \in 1..nq |-> Cardinality({i \in DOMAIN normed_queries : normed_queries[i] = q - 1})]

\* RankBoostLossFunction.fit.  A matrix divided by numpy.sqrt(c) is kept as the
\* pair of the matrix and c.
RankBoostFit(obj, queries, y, sample_weight) ==
    LET uq == Unique(queries)
        ur == Unique(y)
        k == Len(ur.possible)
        s1 == SetAttr(obj, "queries", queries)
        s2 == SetAttr(s1, "y", y)
        s3 == SetAttr(s2, "possible_queries", uq.possible)
        s4 == SetAttr(s3, "possible_ranks", ur.possible)
        s5 == SetAttr(s4, "lookups",
                      <<ur.normed, [i \in DOMAIN y |-> uq.normed[i] * k + ur.normed[i]]>>)
        s6 == SetAttr(s5, "minlengths", <<k, k * Len(uq.possible)>>)
        loop == RankPenaltiesUpTo(obj, ur.possible, k * k)
        s7 == SetAttr(s6, "rank_penalties", loop.M)
        n_queries == QueryCounts(uq.normed, Len(uq.possible))
        s8 == SetAttr(s7, "penalty_matrices",
                      <<[matrix |-> loop.M, over_sqrt |-> 1 + Len(y)],
                        [blocks |-> [q \in DOMAIN n_queries |->
                                       [matrix |-> loop.M, over_sqrt |-> 1 + n_queries[q]]]]>>)
    IN  IF loop.status # "ok" THEN Raise(s7, loop.status)
        ELSE Return(HessianFit(s8, sample_weight), "None")

(***************************************************************************)
(* RankBoostLossFunction: the queries.  The penalty matrices are divided   *)
(* by square roots, so the values are sums of rationals over square roots: *)
(* a function from the radicand c (free of squares) to the rational q      *)
(* stands for the sum of q / sqrt(c).                                      *)
(***************************************************************************)
SquarePart(c) ==
    CHOOSE s \in 1..c : /\ c % (s * s) = 0
                        /\ \A t \in 1..c : c % (t * t) = 0 => t <= s
\* q / numpy.sqrt(c)
OverSqrt(q, c) ==
    IF q = RInt(0) THEN <<>>
    ELSE (c \div (SquarePart(c) * SquarePart(c))) :> RDiv(q, RInt(SquarePart(c)))
SGet(a, c) == IF c \in DOMAIN a THEN a[c] ELSE RInt(0)
SAdd(a, b) ==
    [c \in {d \in DOMAIN a \cup DOMAIN b : RAdd(SGet(a, d), SGet(b, d)) # RInt(0)} |->
       RAdd(SGet(a, c), SGet(b, c))]
SScale(q, a) == IF q = RInt(0) THEN <<>> ELSE [c \in DOMAIN a |-> RMul(q, a[c])]
SSub(a, b) == SAdd(a, SScale(RInt(-1), b))
RECURSIVE SSumUpTo(_, _)
SSumUpTo(v, k) == IF k = 0 THEN <<>> ELSE SAdd(SSumUpTo(v, k - 1), v[k])
SSum(v) == SSumUpTo(v, Len(v))

\* a penalty matrix as its diagonal blocks: the rank-only matrix is one block
PenaltyBlocks(penalty_matrix) ==
    IF "blocks" \in DOMAIN penalty_matrix THEN penalty_matrix.blocks ELSE <<penalty_matrix>>

\* penalty_matrix.dot(stats), and penalty_matrix.T.dot(stats) when transposed
PenaltyDot(penalty_matrix, stats, transposed) ==
    LET blocks == PenaltyBlocks(penalty_matrix)
        k == Len(blocks[1].matrix)
    IN  [j \in 1..(k * Len(blocks)) |->
           OverSqrt(NpSum([b \in 1..k |->
                             RMul(IF transposed
                                  THEN blocks[((j - 1) \div k) + 1].matrix[b][((j - 1) % k) + 1]
                                  ELSE blocks[((j - 1) \div k) + 1].matrix[((j - 1) % k) + 1][b],
                                  stats[((j - 1) \div k) * k + b])]),
                    blocks[((j - 1) \div k) + 1].over_sqrt)]

\* numpy.exp(y_pred) and numpy.exp(-y_pred).  The queries first subtract the
\* mean m of y_pred: exp(p - m) = exp(p) / exp(m), and every product formed
\* below pairs one positive with one negative exponent, so that the factors
\* 1 / exp(m) and exp(m) cancel; they are left out.
PosExponent(y_pred) == [i \in DOMAIN y_pred |-> Exp(y_pred[i])]
NegExponent(y_pred) == [i \in DOMAIN y_pred |-> Exp(-y_pred[i])]

\* y_pred -= y_pred.mean(): the array of the caller after the call
Centered(y_pred) ==
    [i \in DOMAIN y_pred |-> RSub(RInt(y_pred[i]), NpMean(RatVec(y_pred)))]

\* penalty_matrix.dot(neg_stats)[lookup] for the lookup t
RankWPlus(obj, y_pred, t) ==
    LET dot == PenaltyDot(obj.penalty_matrices[t],
                          Bincount(obj.lookups[t], NegExponent(y_pred), obj.minlengths[t]),
                          FALSE)
    IN  [i \in DOMAIN y_pred |-> dot[obj.lookups[t][i] + 1]]

\* penalty_matrix.T.dot(pos_stats)[lookup] for the lookup t
RankWMinus(obj, y_pred, t) ==
    LET dot == PenaltyDot(obj.penalty_matrices[t],
                          Bincount(obj.lookups[t], PosExponent(y_pred), obj.minlengths[t]),
                          TRUE)
    IN  [i \in DOMAIN y_pred |-> dot[obj.lookups[t][i] + 1]]

\* RankBoostLossFunction.__call__
RankBoostCall(obj, y_pred) ==
    SSum([t \in DOMAIN obj.lookups |->
            LET pos_stats == Bincount(obj.lookups[t], PosExponent(y_pred), obj.minlengths[t])
                dot == PenaltyDot(obj.penalty_matrices[t],
                                  Bincount(obj.lookups[t], NegExponent(y_pred),
                                           obj.minlengths[t]),
                                  FALSE)
            IN  SSum([j \in DOMAIN pos_stats |-> SScale(pos_stats[j], dot[j])])])

\* the sum over the lookups of sign * pos_exponent * w_plus and neg_exponent * w_minus
RankBoostSums(obj, y_pred, sign) ==
    [i \in DOMAIN y_pred |->
       SSum([t \in DOMAIN obj.lookups |->
               SAdd(SScale(RMul(RInt(sign), Exp(y_pred[i])), RankWPlus(obj, y_pred, t)[i]),
                    SScale(Exp(-y_pred[i]), RankWMinus(obj, y_pred, t)[i]))])]

\* RankBoostLossFunction.negative_gradient
RankBoostNegativeGradient(obj, y_pred) == RankBoostSums(obj, y_pred, -1)

\* RankBoostLossFunction.hessian
RankBoostHessian(obj, y_pred) == RankBoostSums(obj, y_pred, 1)

RECURSIVE SSetSum(_, _)
\* the sum of v[i] over the events i of S
SSetSum(v, S) ==
    IF S = {} THEN <<>>
    ELSE LET i == CHOOSE x \in S : \A z \in S : x <= z IN SAdd(v[i], SSetSum(v, S \ {i}))

\* numpy.bincount(terminal_regions, weights=w_plus * pos_exponent) + self.regularization
RankWPlusLeaf(obj, terminal_regions, y_pred) ==
    LET weights == [i \in DOMAIN y_pred |->
                      SScale(Exp(y_pred[i]),
                             SSum([t \in DOMAIN obj.lookups |-> RankWPlus(obj, y_pred, t)[i]]))]
    IN  [l \in 1..(SeqMax(terminal_regions, Len(terminal_regions)) + 1) |->
           SAdd(SSetSum(weights, {i \in DOMAIN y_pred : terminal_regions[i] = l - 1}),
                OverSqrt(obj.regularization, 1))]

\* numpy.bincount(terminal_regions, weights=w_minus * neg_exponent) + self.regularization
RankWMinusLeaf(obj, terminal_regions, y_pred) ==
    LET weights == [i \in DOMAIN y_pred |->
                      SScale(Exp(-y_pred[i]),
                             SSum([t \in DOMAIN obj.lookups |-> RankWMinus(obj, y_pred, t)[i]]))]
    IN  [l \in 1..(SeqMax(terminal_regions, Len(terminal_regions)) + 1) |->
           SAdd(SSetSum(weights, {i \in DOMAIN y_pred : terminal_regions[i] = l - 1}),
                OverSqrt(obj.regularization, 1))]

\* a leaf estimate is a sum of multiples of step results, kept as the
\* sequence of the pairs <<factor, step result>>; the empty sequence is 0
ZeroLeaves(n) == [l \in 1..n |-> <<>>]

\* RankBoostLossFunction._prepare_new_leaves_values at the predictions
\* y_pred + leaves_values[terminal_regions]: 0.5 * log(w_minus_leaf / w_plus_leaf)
\* is kept as the pair of the two leaf weights; at an estimate other than zero
\* the exponents are no rationals and the result is kept as the closed form
\* of the leaf at that estimate
RankBoostLeafStep(obj, terminal_regions, y_pred, leaves_values) ==
    IF leaves_values = ZeroLeaves(Len(leaves_values))
    THEN LET w_minus_leaf == RankWMinusLeaf(obj, terminal_regions, y_pred)
             w_plus_leaf == RankWPlusLeaf(obj, terminal_regions, y_pred)
         IN  [l \in DOMAIN w_plus_leaf |-> [half_log_ratio |-> <<w_minus_leaf[l], w_plus_leaf[l]>>]]
    ELSE [l \in 1..(SeqMax(terminal_regions, Len(terminal_regions)) + 1) |->
            [leaf |-> l - 1, closed_form_at |-> leaves_values]]

RankBoostBlend_HalfOfPrevious(new_leaves_values, leaves_values) ==
    IF Len(new_leaves_values) \notin {Len(leaves_values), 1}
    THEN [status |-> "ValueError", leaves_values |-> leaves_values]
    ELSE [status |-> "ok",
          leaves_values |->
             [l \in DOMAIN leaves_values |->
                Append([k \in DOMAIN leaves_values[l] |->
                          <<RMul(<<1, 2>>, leaves_values[l][k][1]), leaves_values[l][k][2]>>],
                       <<(<<1, 2>>),
                         new_leaves_values[IF Len(new_leaves_values) = 1 THEN 1 ELSE l]>>)]]

\* leaves_values = 0.5 * new_leaves_values + leaves_values: arrays of one
\* length are added elementwise, an array of one element is broadcast, any
\* other pair of lengths is a ValueError (terminal_regions holds leaf ids
\* below len(leaf_values), so new_leaves_values is never the longer array)
RankBoostBlend(new_leaves_values, leaves_values) ==
    IF Len(new_leaves_values) \notin {Len(leaves_values), 1}
    THEN [status |-> "ValueError", leaves_values |-> leaves_values]
    ELSE [status |-> "ok",
          leaves_values |->
             [l \in DOMAIN leaves_values |->
                Append(leaves_values[l],
                       <<(<<1, 2>>),
                         new_leaves_values[IF Len(new_leaves_values) = 1 THEN 1 ELSE l]>>)]]

RankBoostIteration(obj, terminal_regions, y_pred, before) ==
    IF before.status # "ok" THEN before
    ELSE RankBoostBlend(RankBoostLeafStep(obj, terminal_regions, y_pred, before.leaves_values),
                        before.leaves_values)

RECURSIVE RankBoostLeavesUpTo(_, _, _, _, _)
\* the loop of prepare_new_leaves_values over the first k iterations
RankBoostLeavesUpTo(obj, terminal_regions, leaf_values, y_pred, k) ==
    IF k = 0 THEN [status |-> "ok", leaves_values |-> ZeroLeaves(Len(leaf_values))]
    ELSE RankBoostIteration(obj, terminal_regions, y_pred,
                            RankBoostLeavesUpTo(obj, terminal_regions, leaf_values, y_pred,
                                                k - 1))

\* RankBoostLossFunction.prepare_new_leaves_values
RankBoostPrepareNewLeavesValues(obj, terminal_regions, leaf_values, y_pred) ==
    LET loop == RankBoostLeavesUpTo(obj, terminal_regions, leaf_values, y_pred,
                                    obj.update_terations)
    IN  IF loop.status # "ok" THEN Raise(obj, loop.status)
        ELSE Return(obj, loop.leaves_values)


(***************************************************************************)
(* check_sample_weight of hep_ml.commonutils, as the specification         *)
(* describes it: missing weights default to ones, and normalization        *)
(* divides the weights of every class by their sum (normalize_by_class)    *)
(* and all weights by their mean (normalize).                              *)
(***************************************************************************)
Ones(n) == [i \in 1..n |-> RInt(1)]

NormalizeByClass(y, weights) ==
    [i \in DOMAIN weights |->
       RDiv(weights[i], SetSumOf(weights, {j \in DOMAIN y : y[j] = y[i]}))]

NormalizeMean(weights) ==
    LET mean == NpMean(weights) IN [i \in DOMAIN weights |-> RDiv(weights[i], mean)]

(***************************************************************************)
(* ReweightLossFunction                                                    *)
(***************************************************************************)
\* ReweightLossFunction.__init__
ReweightInit(regularization) == [regularization |-> regularization]

\* numpy.sign(None) compares None with 0: Python 3 raises TypeError; Python 2
\* orders None below every number, so the sign is -1
PythonVersions == {2, 3}

\* numpy.sign of a rational
NpSign(w) == RSign(w)

\* ReweightLossFunction.fit; sign_of_none is the outcome of numpy.sign(None)
ReweightFit(obj, y, sample_weight, sign_of_none) ==
    IF \E i \in DOMAIN y : y[i] \notin {0, 1} THEN Raise(obj, "AssertionError")
    ELSE LET s1 == SetAttr(obj, "sample_weight",
                           IF sample_weight = None THEN Ones(Len(y)) ELSE sample_weight)
             s2 == SetAttr(s1, "y", y)
             signs == [i \in DOMAIN y |->
                         (2 * y[i] - 1) * (IF sample_weight = None THEN -1
                                           ELSE NpSign(sample_weight[i]))]
             s3 == SetAttr(s2, "signs", signs)
             s4 == SetAttr(s3, "mask_original", y)
             s5 == SetAttr(s4, "mask_target", [i \in DOMAIN y |-> 1 - y[i]])
         IN  IF sample_weight = None /\ sign_of_none = "TypeError"
             THEN Raise(s2, "TypeError")
             ELSE Return(s5, "self")

\* ReweightLossFunction._compute_weights
ReweightComputeWeights(obj, y_pred) ==
    LET weights == [i \in DOMAIN y_pred |->
                      RMul(obj.sample_weight[i], Exp(obj.y[i] * y_pred[i]))]
    IN  NormalizeMean(NormalizeByClass(obj.y, weights))

RAbs(a) == <<Abs(a[1]), a[2]>>

\* ReweightLossFunction.prepare_tree_params
ReweightPrepareTreeParams(obj, y_pred) ==
    LET weights == ReweightComputeWeights(obj, y_pred)
    IN  <<obj.signs, [i \in DOMAIN weights |-> RAbs(weights[i])]>>

\* ndarray.clip(0)
Clip0(a) == IF IsFinite(a) /\ a[1] < 0 THEN RInt(0) ELSE IF a = <<-1, 0>> THEN RInt(0) ELSE a

\* numpy.log(a) - numpy.log(b), kept as the pair of the arguments of the logarithms
LogDifference(a, b) == <<a, b>>

ReweightPrepareNewLeavesValues_NoClip(obj, terminal_regions, y_pred) ==
    LET weights == ReweightComputeWeights(obj, y_pred)
        w_target == Bincount(terminal_regions,
                             [i \in DOMAIN weights |-> RMul(RInt(obj.mask_target[i]), weights[i])], 0)
        w_original == Bincount(terminal_regions,
                               [i \in DOMAIN weights |-> RMul(RInt(obj.mask_original[i]), weights[i])], 0)
    IN  [l \in DOMAIN w_target |->
           <<RAdd(w_target[l], obj.regularization), RAdd(w_original[l], obj.regularization)>>]

\* mask * weights: elementwise, a mask of one element is broadcast (a mask left
\* over from a fit on another number of events)
MaskTimes(mask, weights) ==
    [i \in DOMAIN weights |->
       RMul(RInt(IF Len(mask) = 1 THEN mask[1] ELSE mask[i]), weights[i])]
Broadcastable(mask, weights) == Len(mask) = Len(weights) \/ Len(mask) = 1

\* ReweightLossFunction.prepare_new_leaves_values
ReweightPrepareNewLeavesValues(obj, terminal_regions, y_pred) ==
    LET weights == ReweightComputeWeights(obj, y_pred)
        w_target == Bincount(terminal_regions, MaskTimes(obj.mask_target, weights), 0)
        w_original == Bincount(terminal_regions, MaskTimes(obj.mask_original, weights), 0)
    IN  [l \in DOMAIN w_target |->
           LogDifference(RAdd(Clip0(w_target[l]), obj.regularization),
                         RAdd(Clip0(w_original[l]), obj.regularization))]

RECURSIVE ArgsortOf(_, _)
\* numpy.argsort of a short array: increasing values, ties in input order
ArgsortOf(col, S) ==
    IF S = {} THEN <<>>
    ELSE LET i == CHOOSE x \in S :
                    \A z \in S : col[x] < col[z] \/ (col[x] = col[z] /\ x <= z)
         IN  <<i>> \o ArgsortOf(col, S \ {i})

\* numpy.searchsorted(limits, v): the number of limits below v
SearchSorted(limits, v) ==
    Cardinality({e \in DOMAIN limits : RLt(limits[e], RInt(v))})

(***************************************************************************)
(* Flatness losses.  Events are numbered from 1; a group is the sequence   *)
(* of the numbers of its events; a dict is a function of its keys.         *)
(***************************************************************************)
ComputePositions_WeightBefore(y_pred, sample_weight) ==
    LET order == ArgsortOf(y_pred, DOMAIN y_pred)
        taken == [k \in DOMAIN order |-> sample_weight[order[k]]]
        total == NpSum(taken)
        ordered_weights == [k \in DOMAIN order |-> RDiv(taken[k], total)]
        efficiencies ==
            [k \in DOMAIN order |->
               RSub(SumUpTo(ordered_weights, k - 1), RMul(<<1, 2>>, ordered_weights[k]))]
    IN  [i \in DOMAIN y_pred |-> efficiencies[CHOOSE k \in DOMAIN order : order[k] = i]]

\* _compute_positions
ComputePositions(y_pred, sample_weight) ==
    LET order == ArgsortOf(y_pred, DOMAIN y_pred)
        taken == [k \in DOMAIN order |-> sample_weight[order[k]]]
        total == NpSum(taken)
        ordered_weights == [k \in DOMAIN order |-> RDiv(taken[k], total)]
        efficiencies ==
            [k \in DOMAIN order |->
               RSub(SumUpTo(ordered_weights, k), RMul(<<1, 2>>, ordered_weights[k]))]
    IN  [i \in DOMAIN y_pred |-> efficiencies[CHOOSE k \in DOMAIN order : order[k] = i]]

\* exp_margin
ExpMargin(margin) ==
    Exp(IF margin > 2 THEN 2 ELSE IF margin < -100000 THEN -100000 ELSE margin)

\* AbstractFlatnessLossFunction.__init__
FlatnessInit(uniform_label, power, ada_coefficient, allow_wrong_signs, keep_debug_info) ==
    [uniform_features |-> <<"feature">>, uniform_label |-> uniform_label, power |-> power,
     ada_coefficient |-> ada_coefficient, allow_wrong_signs |-> allow_wrong_signs,
     keep_debug_info |-> keep_debug_info, use_median |-> FALSE]

\* BinFlatnessLossFunction.__init__
BinFlatnessInit(uniform_label, n_bins, power, allow_wrong_signs, keep_debug_info) ==
    [n_bins |-> n_bins]
    @@ FlatnessInit(uniform_label, power, 1, allow_wrong_signs, keep_debug_info)

\* KnnFlatnessLossFunction.__init__; random_state is None or Some(seed)
KnnFlatnessInit(uniform_label, n_neighbours, power, max_groups_on_iteration, allow_wrong_signs, keep_debug_info, random_state) ==
    [n_neighbours |-> n_neighbours, max_group_on_iteration |-> max_groups_on_iteration,
     random_state |-> [kind |-> IF random_state = None THEN "None" ELSE "int",
                       seed |-> random_state, drawn |-> 0]]
    @@ FlatnessInit(uniform_label, power, 1, allow_wrong_signs, keep_debug_info)

LabelEvents(y, label) == {i \in DOMAIN y : y[i] = label}
Take(v, indices) == [k \in DOMAIN indices |-> v[indices[k]]]

\* numpy.linspace(f_min, f_max, num)
Linspace(f_min, f_max, num) ==
    [k \in 1..num |-> RAdd(RInt(f_min), RDiv(RInt((k - 1) * (f_max - f_min)), RInt(num - 1)))]

BinLimits_EveryGridPlain(axis_limits, shift) ==
    LET picked == {j \in 2..(Len(axis_limits) - 2) : j % 2 = 0}
    IN  [k \in 1..Cardinality(picked) |-> axis_limits[1 + 2 * k]]

\* axis_limits[1 + shift:-1:2]
BinLimits(axis_limits, shift) ==
    LET picked == {j \in (1 + shift)..(Len(axis_limits) - 2) : (j - 1 - shift) % 2 = 0}
    IN  [k \in 1..Cardinality(picked) |-> axis_limits[shift + 2 * k]]

\* bin_to_group_indices of hep_ml.metrics_utils: for every bin that holds an
\* event, the events of the mask in it
BinToGroupIndices(bin_indices, mask) ==
    LET ids == SortedSeq(Range(bin_indices))
    IN  [k \in DOMAIN ids |-> SortedSeq({i \in mask : bin_indices[i] = ids[k]})]

\* BinFlatnessLossFunction.compute_groups_indices, for one uniform feature whose
\* column is X
BinComputeGroupsIndices(obj, X, y, label) ==
    LET label_mask == LabelEvents(y, label)
        f_min == CHOOSE v \in {X[i] : i \in label_mask} : \A i \in label_mask : v <= X[i]
        f_max == CHOOSE v \in {X[i] : i \in label_mask} : \A i \in label_mask : v >= X[i]
        extended_bin_limits == Linspace(f_min, f_max, 2 * obj.n_bins + 1)
        groups(shift) ==
            LET bin_limits == BinLimits(extended_bin_limits, shift)
            IN  BinToGroupIndices([i \in DOMAIN X |-> SearchSorted(bin_limits, X[i])],
                                  label_mask)
    IN  IF label_mask = {} THEN [status |-> "ValueError", self |-> obj, groups |-> <<>>]
        ELSE [status |-> "ok", self |-> obj, groups |-> groups(0) \o groups(1)]

\* check_random_state of sklearn: a generator is kept, a seed makes a new
\* generator, None is the generator of the numpy module (seed None)
CheckRandomState(seed) ==
    IF seed.kind = "RandomState" THEN seed
    ELSE [kind |-> "RandomState", seed |-> seed.seed, drawn |-> 0]

\* random_state.choice(n, size): a.choice[label] holds the selections a
\* generator made from the seed yields, draw after draw, for the rows of the
\* label; the generator of the numpy module (seed None) yields any of them
RandomChoice(random_state, stream) ==
    stream[IF random_state.seed = None THEN 1 ELSE random_state.drawn + 1]

\* KnnFlatnessLossFunction.compute_groups_indices; a.X[label] holds the rows
\* the neighbour index answers for the events of the label
KnnComputeGroupsIndices(obj, a, label) ==
    LET events == SortedSeq(LabelEvents(a.y, label))
        random_state == CheckRandomState(obj.random_state)
        knn_indices == [k \in DOMAIN events |-> a.X[label][events[k]]]
        subsample == Len(knn_indices) > obj.max_group_on_iteration
        selected_group == IF subsample THEN RandomChoice(random_state, a.choice[label])
                          ELSE <<>>
    IN  [status |-> "ok",
         self |-> SetAttr(obj, "random_state",
                          IF subsample THEN [random_state EXCEPT !.drawn = @ + 1]
                          ELSE random_state),
         groups |-> IF subsample
                    THEN [k \in DOMAIN selected_group |-> knn_indices[selected_group[k]]]
                    ELSE knn_indices]

\* group_indices_to_groups_matrix of hep_ml.metrics_utils: the sparse
\* indicator matrix of the groups
GroupsMatrix(groups, n) ==
    [shape |-> <<Len(groups), n>>,
     nonzero |-> {p \in (DOMAIN groups) \X (1..n) : p[2] \in Range(groups[p[1]])}]

\* compute_group_weights of hep_ml.metrics_utils: the share of every group in
\* the summed weight of the groups
GroupWeights(matrix, sample_weight) ==
    LET w == [g \in 1..matrix.shape[1] |->
                SetSumOf(sample_weight,
                         {i \in 1..matrix.shape[2] : <<g, i>> \in matrix.nonzero})]
    IN  [g \in DOMAIN w |-> RDiv(w[g], NpSum(w))]

\* lines 566-568 of fit for one label, given the groups of the label
FlatnessStoreGroups(s1, label, groups, matrix, sample_weight) ==
    [group_indices |-> (label :> groups) @@ s1.group_indices,
     group_matrices |-> (label :> matrix) @@ s1.group_matrices,
     group_weights |-> (label :> GroupWeights(matrix, sample_weight)) @@ s1.group_weights]
    @@ s1

FlatnessGroupsStored(computed, label, n, sample_weight) ==
    IF computed.status # "ok" THEN [status |-> computed.status, self |-> computed.self]
    ELSE [status |-> "ok",
          self |-> FlatnessStoreGroups(computed.self, label, computed.groups,
                                       GroupsMatrix(computed.groups, n), sample_weight)]

FlatnessGroupsStep(c, before, a, sample_weight, label) ==
    IF before.status # "ok" THEN before
    ELSE FlatnessGroupsStored(IF c = "BinFlatnessLossFunction"
                              THEN BinComputeGroupsIndices(before.self, a.X, a.y, label)
                              ELSE KnnComputeGroupsIndices(before.self, a, label),
                              label, Len(a.y), sample_weight)

RECURSIVE FlatnessGroupsUpTo(_, _, _, _, _)
\* the loop of fit over the first k uniform labels
FlatnessGroupsUpTo(c, obj, a, sample_weight, k) ==
    IF k = 0 THEN [status |-> "ok", self |-> obj]
    ELSE FlatnessGroupsStep(c, FlatnessGroupsUpTo(c, obj, a, sample_weight, k - 1), a,
                            sample_weight, obj.uniform_label[k])

\* occurences of fit: the number of groups every event is in
Occurences(group_indices, n) ==
    [i \in 1..n |->
       Cardinality(UNION {{<<label, g>> : g \in {g \in DOMAIN group_indices[label] :
                                                  i \in Range(group_indices[label][g])}} :
                          label \in DOMAIN group_indices})]

\* the condition of the warning of fit with the share of the events of the
\* uniform labels in place of numpy.mean
OutOfBinsWarning_ShareOfUniformLabels(out_of_bins, y, uniform_label) ==
    Cardinality(out_of_bins) * 100
        > Cardinality({i \in DOMAIN y : y[i] \in Range(uniform_label)})

\* numpy.mean(out_of_bins) > 0.01
OutOfBinsWarning(out_of_bins, y, uniform_label) ==
    RLt(<<1, 100>>, RDiv(RInt(Cardinality(out_of_bins)), RInt(Len(y))))

\* check_sample_weight(y, sample_weight): missing weights are ones
FlatnessSampleWeight(a) == IF a.sample_weight = None THEN Ones(Len(a.y)) ELSE a.sample_weight

\* lines 576-582 of fit
FlatnessFitted(s1, a, sample_weight, occurences) ==
    [y |-> a.y, y_signed |-> YSigned(a.y), sample_weight |-> sample_weight,
     divided_weight |->
         [i \in DOMAIN a.y |->
            RDiv(sample_weight[i], RInt(IF occurences[i] > 1 THEN occurences[i] ELSE 1))]]
    @@ (IF s1.keep_debug_info THEN [debug_dict |-> <<>>] ELSE <<>>)
    @@ s1

\* lines 572-583 of fit
FlatnessFitWeights(s1, a, sample_weight, occurences) ==
    LET out_of_bins == {i \in DOMAIN a.y :
                          occurences[i] = 0 /\ a.y[i] \in Range(s1.uniform_label)}
    IN  IF OutOfBinsWarning(out_of_bins, a.y, s1.uniform_label)
        THEN Warned(Return(FlatnessFitted(s1, a, sample_weight, occurences), "self"),
                    "UserWarning")
        ELSE Return(FlatnessFitted(s1, a, sample_weight, occurences), "self")

FlatnessFitGroups(loop, a, sample_weight) ==
    IF loop.status # "ok" THEN Raise(loop.self, loop.status)
    ELSE FlatnessFitWeights(loop.self, a, sample_weight,
                            Occurences(loop.self.group_indices, Len(a.y)))

\* AbstractFlatnessLossFunction.fit
FlatnessFit(c, obj, a) ==
    IF c = "BinFlatnessLossFunction" /\ Len(a.X) # Len(a.y) THEN Raise(obj, "AssertionError")
    ELSE FlatnessFitGroups(
             FlatnessGroupsUpTo(c,
                                [group_indices |-> <<>>, group_matrices |-> <<>>,
                                 group_weights |-> <<>>] @@ obj,
                                a, FlatnessSampleWeight(a), Len(obj.uniform_label)),
             a, FlatnessSampleWeight(a))

RECURSIVE RPow(_, _)
RPow(r, e) == IF e = 0 THEN RInt(1) ELSE RMul(r, RPow(r, e - 1))

\* the flatness gradient negative_gradient adds for one uniform label
FlatnessTerm(obj, y_pred, label) ==
    LET label_mask == SortedSeq(LabelEvents(obj.y, label))
        positions == ComputePositions(Take(y_pred, label_mask),
                                      Take(obj.sample_weight, label_mask))
        global_positions ==
            [i \in DOMAIN y_pred |->
               IF obj.y[i] = label THEN positions[PositionIn(label_mask, i)] ELSE RInt(0)]
        groups == obj.group_indices[label]
        bin_gradient(indices_in_bin) ==
            LET local_pos == ComputePositions(Take(y_pred, indices_in_bin),
                                              Take(obj.sample_weight, indices_in_bin))
            IN  [k \in DOMAIN indices_in_bin |->
                   LET difference == RSub(local_pos[k], global_positions[indices_in_bin[k]])
                   IN  RMul(RInt(obj.power * RSign(difference)),
                            RPow(RAbs(difference), obj.power - 1))]
    IN  [i \in DOMAIN obj.y |->
           SetSumOf([g \in DOMAIN groups |->
                       IF i \in Range(groups[g])
                       THEN bin_gradient(groups[g])[PositionIn(groups[g], i)]
                       ELSE RInt(0)],
                    DOMAIN groups)]

RECURSIVE FlatnessTermsUpTo(_, _, _)
FlatnessTermsUpTo(obj, y_pred, k) ==
    IF k = 0 THEN [i \in DOMAIN obj.y |-> RInt(0)]
    ELSE LET before == FlatnessTermsUpTo(obj, y_pred, k - 1)
             term == FlatnessTerm(obj, y_pred, obj.uniform_label[k])
         IN  [i \in DOMAIN obj.y |-> RAdd(before[i], term[i])]

\* the Ada term of negative_gradient
FlatnessAdaTerm(obj, y_pred) ==
    [i \in DOMAIN obj.y |->
       RMul(RInt(obj.y_signed[i]),
            RMul(obj.sample_weight[i], ExpMargin(-obj.y_signed[i] * y_pred[i])))]

\* numpy.clip(x, 0, 1e5)
ClipSign(x) ==
    IF RLt(x, RInt(0)) THEN RInt(0) ELSE IF RLt(RInt(100000), x) THEN RInt(100000) ELSE x

DictAppend(dict, key, v) ==
    (key :> Append(IF key \in DOMAIN dict THEN dict[key] ELSE <<>>, v)) @@ dict

FlatnessDebug_NoAdaGrad(obj, y_pred, flatness, ada) ==
    IF obj.keep_debug_info
    THEN SetAttr(obj, "debug_dict",
                 DictAppend(DictAppend(obj.debug_dict, "pred", y_pred), "fl_grad", flatness))
    ELSE obj

\* lines 617-620 of negative_gradient
FlatnessDebug(obj, y_pred, flatness, ada) ==
    IF obj.keep_debug_info
    THEN SetAttr(obj, "debug_dict",
                 DictAppend(DictAppend(DictAppend(obj.debug_dict, "pred", y_pred),
                                       "fl_grad", flatness),
                            "ada_grad", ada))
    ELSE obj

\* lines 625-626 of negative_gradient
FlatnessClipped(obj, neg_gradient) ==
    IF obj.allow_wrong_signs THEN neg_gradient
    ELSE [i \in DOMAIN obj.y |->
            RMul(RInt(obj.y_signed[i]),
                 ClipSign(RMul(RInt(obj.y_signed[i]), neg_gradient[i])))]

\* lines 614-628 of negative_gradient
FlatnessGradientSum(obj, y_pred, flatness, ada) ==
    IF \E i \in DOMAIN obj.y :
          obj.y[i] \notin Range(obj.uniform_label) /\ flatness[i] # RInt(0)
    THEN Raise(obj, "AssertionError")
    ELSE IF obj.keep_debug_info /\ ~HasAttr(obj, "debug_dict")
    THEN Raise(obj, "AttributeError")
    ELSE Return(FlatnessDebug(obj, y_pred, flatness, ada),
                FlatnessClipped(obj, [i \in DOMAIN obj.y |->
                                        RAdd(flatness[i],
                                             RMul(RInt(obj.ada_coefficient), ada[i]))]))

\* line 612 of negative_gradient
FlatnessWeighted(obj, summed) ==
    [i \in DOMAIN obj.y |-> RMul(summed[i], obj.divided_weight[i])]

\* AbstractFlatnessLossFunction.negative_gradient
FlatnessNegativeGradient(obj, y_pred) ==
    IF ~HasAll(obj, {"y", "group_indices", "sample_weight", "divided_weight", "y_signed"})
    THEN Raise(obj, "AttributeError")
    ELSE FlatnessGradientSum(obj, y_pred,
                             FlatnessWeighted(obj, FlatnessTermsUpTo(obj, y_pred,
                                                                     Len(obj.uniform_label))),
                             FlatnessAdaTerm(obj, y_pred))

(***************************************************************************)
(* Dispatch on the class of the instance.                                  *)
(***************************************************************************)
ScalarClasses == {"AdaLossFunction", "MSELossFunction", "LogLossFunction",
                  "CompositeLossFunction"}
HessianClasses == ScalarClasses \cup {"RankBoostLossFunction", "KnnAdaLossFunction"}
FlatnessClasses == {"BinFlatnessLossFunction", "KnnFlatnessLossFunction"}

\* the attributes a query of the class reads
QueryAttrs(c) ==
    CASE c = "AdaLossFunction" -> {"y_signed", "sample_weight"}
      [] c = "MSELossFunction" -> {"y", "sample_weight"}
      [] c = "LogLossFunction" -> {"y_signed", "sample_weight"}
      [] c = "CompositeLossFunction" -> {"sig_w", "bck_w"}
      [] c = "KnnAdaLossFunction" -> {"A_t_sq", "y_signed"}
      [] c = "RankBoostLossFunction" -> {"lookups", "minlengths", "penalty_matrices"}
      [] c = "ReweightLossFunction" -> {"sample_weight", "y", "signs", "mask_target"}
      [] OTHER -> {}

DoFit(c, obj, a, py) ==
    CASE c = "AdaLossFunction" -> AdaFit(obj, a.y, a.sample_weight)
      [] c = "MSELossFunction" -> MSEFit(obj, a.y, a.sample_weight)
      [] c = "LogLossFunction" -> LogFit(obj, a.y, a.sample_weight)
      [] c = "CompositeLossFunction" -> CompositeFit(obj, a.y, a.sample_weight)
      [] c = "KnnAdaLossFunction" -> MatrixFit(obj, a.X, a.y, a.sample_weight)
      [] c = "RankBoostLossFunction" -> RankBoostFit(obj, a.X, a.y, a.sample_weight)
      [] c = "ReweightLossFunction" ->
           ReweightFit(obj, a.y, a.sample_weight, IF py = 2 THEN "-1" ELSE "TypeError")
      [] c \in FlatnessClasses -> FlatnessFit(c, obj, a)

NegativeGradientOf(c, obj, y_pred) ==
    CASE c = "AdaLossFunction" -> AdaNegativeGradient(obj, y_pred)
      [] c = "MSELossFunction" -> MSENegativeGradient(obj, y_pred)
      [] c = "LogLossFunction" -> LogNegativeGradient(obj, y_pred)
      [] c = "CompositeLossFunction" -> CompositeNegativeGradient(obj, y_pred)
      [] c = "KnnAdaLossFunction" -> MatrixNegativeGradient(obj, y_pred)
      [] c = "RankBoostLossFunction" -> RankBoostNegativeGradient(obj, y_pred)
      [] c = "ReweightLossFunction" -> RInt(0)

HessianOf(c, obj, y_pred) ==
    CASE c = "AdaLossFunction" -> AdaHessian(obj, y_pred)
      [] c = "MSELossFunction" -> MSEHessian(obj, y_pred)
      [] c = "LogLossFunction" -> LogHessian(obj, y_pred)
      [] c = "CompositeLossFunction" -> CompositeHessian(obj, y_pred)
      [] c = "KnnAdaLossFunction" -> MatrixHessian(obj, y_pred)
      [] c = "RankBoostLossFunction" -> RankBoostHessian(obj, y_pred)

\* numpy.sum(weight * numpy.logaddexp(0, z)): log(1 + exp(z)) is no rational
\* and is kept as the pair of the weight and 1 + exp(z), the sum as the
\* sequence of the pairs
LogTerm(weight, z) == [weight |-> weight, log_of |-> RAdd(RInt(1), Exp(z))]

\* LogLossFunction.__call__
LogCall(obj, y_pred) ==
    [i \in DOMAIN y_pred |-> LogTerm(obj.sample_weight[i], -obj.y_signed[i] * y_pred[i])]

\* CompositeLossFunction.__call__: the sum of the logarithms and the sum of
\* the exponents
CompositeCall(obj, y_pred) ==
    [logs |-> [i \in DOMAIN y_pred |-> LogTerm(obj.sig_w[i], -y_pred[i])],
     exps |-> NpSum([i \in DOMAIN y_pred |-> RMul(obj.bck_w[i], ExpHalf(y_pred[i]))])]

CallOf(c, obj, y_pred) ==
    CASE c = "AdaLossFunction" -> AdaCall(obj, y_pred)
      [] c = "MSELossFunction" -> MSECall(obj, y_pred)
      [] c = "LogLossFunction" -> LogCall(obj, y_pred)
      [] c = "CompositeLossFunction" -> CompositeCall(obj, y_pred)
      [] c = "KnnAdaLossFunction" -> MatrixCall(obj, y_pred)
      [] c = "RankBoostLossFunction" -> RankBoostCall(obj, y_pred)

\* the attributes __call__ of the class reads
CallAttrs(c) ==
    CASE c \in {"AdaLossFunction", "LogLossFunction"} -> {"y_signed", "sample_weight"}
      [] c = "KnnAdaLossFunction" -> {"A", "y_signed", "w"}
      [] OTHER -> QueryAttrs(c)

\* HessianLossFunction.prepare_tree_params
HessianPrepareTreeParams(c, obj, y_pred) ==
    LET grad == NegativeGradientOf(c, obj, y_pred)
        h == HessianOf(c, obj, y_pred)
        hess == [i \in DOMAIN h |-> RAdd(h[i], Epsilon)]
    IN  <<[i \in DOMAIN grad |-> RDiv(grad[i], hess[i])], hess>>

\* HessianLossFunction.prepare_tree_params of a RankBoostLossFunction: the
\* quotient of two sums over square roots is kept as the pair of the two
RankBoostPrepareTreeParams(obj, y_pred) ==
    LET grad == RankBoostNegativeGradient(obj, y_pred)
        h == RankBoostHessian(obj, y_pred)
        hess == [i \in DOMAIN h |-> SAdd(h[i], OverSqrt(Epsilon, 1))]
    IN  <<[i \in DOMAIN grad |-> [nominator |-> grad[i], denominator |-> hess[i]]], hess>>

HessianPrepareNewLeavesValues_NoShrinkage(c, obj, terminal_regions, leaf_values, y_pred, residual) ==
    LET minlength == Len(leaf_values)
        nominators == Bincount(terminal_regions, residual, minlength)
        denominators == Bincount(terminal_regions, HessianOf(c, obj, y_pred), minlength)
    IN  [l \in DOMAIN nominators |-> RDiv(nominators[l], denominators[l])]

\* HessianLossFunction.prepare_new_leaves_values
HessianPrepareNewLeavesValues(c, obj, terminal_regions, leaf_values, y_pred, residual) ==
    LET minlength == Len(leaf_values)
        nominators == Bincount(terminal_regions, residual, minlength)
        denominators == Bincount(terminal_regions, HessianOf(c, obj, y_pred), minlength)
    IN  [l \in DOMAIN nominators |->
           RDiv(nominators[l], RAdd(denominators[l], obj.regularization_))]


MatrixEpsilon == <<1, 100000>>

\* AbstractMatrixLossFunction.prepare_new_leaves_values.  The csc_matrix built
\* from (data, [rows, columns]) gets max(terminal_regions) + 1 columns.
MatrixPrepareNewLeavesValues(obj, terminal_regions, y_pred) ==
    LET exponents == MatrixExponents(obj, y_pred)
        n == Len(terminal_regions)
        nleaves == SeqMax(terminal_regions, n) + 1
        regions_matrix == [i \in 1..n |-> [l \in 1..nleaves |->
                             IF terminal_regions[i] + 1 = l THEN RInt(obj.y_signed[i])
                             ELSE RInt(0)]]
        Z == [l \in 1..nleaves |-> [r \in DOMAIN obj.A |->
                NpSum([i \in 1..n |-> RMul(obj.A[r][i], regions_matrix[i][l])])]]
        we == [r \in DOMAIN exponents |-> RMul(obj.w[r], exponents[r])]
        nominator == MatDot(Z, we)
        denominator == MatDot(ElementwiseSquare(Z), we)
    IN  [l \in 1..nleaves |-> RDiv(nominator[l], RAdd(denominator[l], MatrixEpsilon))]

(***************************************************************************)
(* The calls of the trainer on a loss instance.                            *)
(***************************************************************************)
RegularizationVals == {RInt(0), RInt(DefaultRegularization)}
KnnVals == {1, 2}
UniformLabelVals == {<<0>>, <<1>>, <<0, 1>>, <<1, 0>>}
UpdateIterationVals == {1, 2}
RankVals == {0, 1, 2}
QueryVals == {0, 1}
PenaltyVals == {"square", "linear", "cubic"}


\* mask of compute_knn_indices_of_signal for the rows of event i
KnnMask(obj, y, i) ==
    IF obj.distinguish_classes THEN {j \in DOMAIN y : y[j] = y[i]} ELSE DOMAIN y

\* the answers the neighbour index can give: for every event of a uniform label,
\* knn distinct events of the mask; with knn = 1 any event of the mask, with more
\* neighbours the event itself first (rows of other events are not read)
KnnIndices(obj, y) ==
    {m \in [DOMAIN y -> [1..obj.knn -> DOMAIN y]] :
        \A i \in DOMAIN y :
            IF y[i] \in Range(obj.uniform_label)
            THEN /\ Range(m[i]) \subseteq KnnMask(obj, y, i)
                 /\ Injective(m[i])
                 /\ obj.knn > 1 => m[i][1] = i
            ELSE m[i] = [j \in 1..obj.knn |-> i]}

WeightVecs(n) == {RatVec(v) : v \in Vec(n, PosWeights)}

MaxNFlat == 2
\* entries of debug_dict['pred'] after which the trainer stops
MaxDebug == 1
\* draws of a seeded generator after which the trainer stops fitting
MaxDraws == 2
\* the seeds of the seeded instances
Seeds == {7, 11}
PadVals == {0, 100}
FlatFeatureVals == {0, 1, 2}
FlatPredVals == {-3, 1}
PowerVals == {1, 2}
NeighboursVals == {1, 2}
MaxGroupsVals == {1, 2}
FlatUniformLabelVals == {<<1>>, <<0, 1>>}
FlatBinsVals == {2}
DebugVals == {FALSE}
SeedVals == {None}

\* the first events are followed by pad events of the value v
Padded(first, pad, v) ==
    [i \in 1..(Len(first) + pad) |-> IF i <= Len(first) THEN first[i] ELSE v]

\* the training sets of a flatness loss: some events of either label, followed,
\* for the neighbour groups and when label 0 is no uniform label, by many
\* unweighted events of label 0
FlatnessPads(c, obj) ==
    IF c = "BinFlatnessLossFunction" \/ 0 \in Range(obj.uniform_label) THEN {0} ELSE PadVals
FlatnessWeights(obj, n, pad) ==
    IF pad > 0 \/ obj.keep_debug_info THEN {None}
    ELSE {None, [i \in 1..n |-> RInt(1 + (i % 2))]}

\* the answers of the neighbour index: for every uniform label and every event
\* of it, n_neighbours distinct events of the label, the event itself first
KnnAnswers(obj, y) ==
    LET U == Range(obj.uniform_label)
        rows(l) == IF LabelEvents(y, l) = {} THEN {}
                   ELSE {m \in [LabelEvents(y, l) -> [1..obj.n_neighbours -> LabelEvents(y, l)]] :
                           \A i \in LabelEvents(y, l) : Injective(m[i]) /\ m[i][1] = i}
    IN  {X \in [U -> UNION {rows(l) : l \in U}] : \A l \in U : X[l] \in rows(l)}

\* the rows random_state.choice can select, for every uniform label: one
\* selection for every draw the generator can be asked for
ChoiceAnswers(obj, y) ==
    LET U == Range(obj.uniform_label)
        draws == IF obj.random_state.seed = None THEN 1 ELSE MaxDraws
        selections(l) ==
            IF Cardinality(LabelEvents(y, l)) > obj.max_group_on_iteration
            THEN Vec(draws, Vec(obj.max_group_on_iteration,
                                1..Cardinality(LabelEvents(y, l))))
            ELSE {<<>>}
    IN  {c \in [U -> UNION {selections(l) : l \in U}] : \A l \in U : c[l] \in selections(l)}

FlatnessFitArgs(c, obj) ==
    UNION {UNION {IF c = "BinFlatnessLossFunction"
                  THEN [X : {Padded(x, pad, 0) : x \in Vec(Len(first), FlatFeatureVals)},
                        y : {Padded(first, pad, 0)},
                        sample_weight : FlatnessWeights(obj, Len(first), pad),
                        choice : {None}]
                  ELSE [X : KnnAnswers(obj, Padded(first, pad, 0)),
                        y : {Padded(first, pad, 0)},
                        sample_weight : FlatnessWeights(obj, Len(first), pad),
                        choice : ChoiceAnswers(obj, Padded(first, pad, 0))] :
                  first \in UNION {Vec(n, Labels) : n \in 1..MaxNFlat}} :
           pad \in FlatnessPads(c, obj)}

FitArgs(c, obj) ==
    CASE c \in ScalarClasses ->
           UNION {[X : {None}, y : Vec(n, Labels), sample_weight : WeightVecs(n)] :
                  n \in 1..MaxN}
      [] c = "KnnAdaLossFunction" ->
           UNION {UNION {[X : KnnIndices(obj, y), y : {y}, sample_weight : WeightVecs(n)] :
                         y \in Vec(n, Labels)} : n \in 1..MaxNKnn}
      [] c = "RankBoostLossFunction" ->
           UNION {[X : {q \in Vec(n, QueryVals) : q[1] = 0}, y : Vec(n, RankVals),
                   sample_weight : {[i \in 1..n |-> RInt(w)] : w \in PosWeights}] :
                  n \in 1..MaxNRank}
      [] c = "ReweightLossFunction" ->
           UNION {[X : {None}, y : Vec(n, Labels),
                   sample_weight : {None} \cup {RatVec(v) : v \in Vec(n, SignedWeights)}] :
                  n \in 1..MaxNRw}
      [] c \in FlatnessClasses -> FlatnessFitArgs(c, obj)

Constructed(c) ==
    CASE c \in ScalarClasses -> {HessianInit(r) : r \in RegularizationVals}
      [] c = "KnnAdaLossFunction" ->
           {KnnAdaInit(u, k, d, RInt(1)) : u \in UniformLabelVals, k \in KnnVals, d \in BOOLEAN}
      [] c = "RankBoostLossFunction" ->
           {RankBoostInit(m, k) : m \in PenaltyVals, k \in UpdateIterationVals}
      [] c = "ReweightLossFunction" -> {ReweightInit(r) : r \in RegularizationVals}
      [] c = "BinFlatnessLossFunction" ->
           {BinFlatnessInit(u, b, p, s, d) :
              u \in FlatUniformLabelVals, b \in FlatBinsVals, p \in PowerVals,
              s \in BOOLEAN, d \in DebugVals}
      [] c = "KnnFlatnessLossFunction" ->
           {KnnFlatnessInit(u, k, p, g, s, d, r) :
              u \in FlatUniformLabelVals, k \in NeighboursVals, p \in PowerVals,
              g \in MaxGroupsVals, s \in BOOLEAN, d \in DebugVals, r \in SeedVals}

\* no call is pending: the caller has taken the result of its last call
Idle == [op |-> "idle", args |-> None, status |-> "return", value |-> "None",
         warnings |-> <<>>]

InitClasses(classes) ==
    /\ python = 3
    /\ cls \in classes
    /\ self \in Constructed(cls)
    /\ train = None
    /\ call = Idle

Outcome(op, args, r) ==
    /\ self' = r.self
    /\ call' = [op |-> op, args |-> args, status |-> r.status, value |-> r.value,
                 warnings |-> r.warnings]
    /\ UNCHANGED <<python, cls>>

Fit ==
    /\ call.op = "idle"
    /\ \E a \in FitArgs(cls, self) :
        /\ train' = a
        /\ Outcome("fit", a, DoFit(cls, self, a, python))

Fitted == train # None /\ call.op = "idle"
HasQueries == cls \in HessianClasses
Preds == Vec(Len(train.y), PredVals)

Query(op, args, attrs, value) ==
    /\ UNCHANGED train
    /\ Outcome(op, args, IF HasAll(self, attrs) THEN Return(self, value)
                         ELSE Raise(self, "AttributeError"))

NegativeGradient ==
    /\ Fitted /\ HasQueries
    /\ \E y_pred \in Preds :
         Query("negative_gradient", [y_pred |-> y_pred], QueryAttrs(cls),
               NegativeGradientOf(cls, self, y_pred))

Hessian ==
    /\ Fitted /\ HasQueries
    /\ \E y_pred \in Preds :
         Query("hessian", [y_pred |-> y_pred], QueryAttrs(cls), HessianOf(cls, self, y_pred))

PrepareTreeParams ==
    /\ Fitted /\ HasQueries
    /\ \E y_pred \in Preds :
         Query("prepare_tree_params", [y_pred |-> y_pred], QueryAttrs(cls),
               IF cls = "RankBoostLossFunction" THEN RankBoostPrepareTreeParams(self, y_pred)
               ELSE HessianPrepareTreeParams(cls, self, y_pred))

\* __call__ of a loss derived from HessianLossFunction
Call ==
    /\ Fitted /\ HasQueries
    /\ \E y_pred \in Preds :
         Query("__call__", [y_pred |-> y_pred], CallAttrs(cls), CallOf(cls, self, y_pred))

LeafArgs ==
    UNION {[terminal_regions : Vec(Len(train.y), 0..(nl - 1)),
            leaf_values : {[l \in 1..nl |-> RInt(0)]},
            y_pred : Vec(Len(train.y), LeafPredVals),
            residual : IF cls \in {"ReweightLossFunction", "RankBoostLossFunction"}
                       THEN {[i \in 1..Len(train.y) |-> RInt(0)]}
                       ELSE {RatVec(v) : v \in Vec(Len(train.y), ResidualVals)}] :
           nl \in 1..MaxLeaves}

PrepareNewLeavesValues ==
    /\ Fitted /\ HasQueries
    /\ \E a \in LeafArgs :
         IF cls = "KnnAdaLossFunction"
         THEN Query("prepare_new_leaves_values", a, {"A", "y_signed", "w"},
                    MatrixPrepareNewLeavesValues(self, a.terminal_regions, a.y_pred))
         ELSE IF cls = "RankBoostLossFunction"
         THEN /\ UNCHANGED train
              /\ Outcome("prepare_new_leaves_values", a,
                         IF ~HasAll(self, QueryAttrs(cls)) THEN Raise(self, "AttributeError")
                         ELSE RankBoostPrepareNewLeavesValues(self, a.terminal_regions,
                                                              a.leaf_values, a.y_pred))
         ELSE Query("prepare_new_leaves_values", a, QueryAttrs(cls) \cup {"regularization_"},
                    HessianPrepareNewLeavesValues(cls, self, a.terminal_regions, a.leaf_values,
                                                  a.y_pred, a.residual))

\* the recomputed weights are finite: no class whose weights cancel to a zero sum
ReweightDefined(obj, y_pred) ==
    \A i \in DOMAIN y_pred :
        SetSumOf([j \in DOMAIN y_pred |-> RMul(obj.sample_weight[j], Exp(obj.y[j] * y_pred[j]))],
                 {j \in DOMAIN y_pred : obj.y[j] = obj.y[i]})[1] # 0

IsReweight == cls = "ReweightLossFunction"

ReweightNegativeGradient ==
    /\ Fitted /\ IsReweight
    /\ \E y_pred \in Preds :
         Query("negative_gradient", [y_pred |-> y_pred], {}, RInt(0))

ReweightCall ==
    /\ Fitted /\ IsReweight
    /\ \E y_pred \in Preds : Query("__call__", [y_pred |-> y_pred], {}, RInt(0))

ReweightPrepareTreeParamsCall ==
    /\ Fitted /\ IsReweight
    /\ \E y_pred \in Preds :
         /\ HasAll(self, QueryAttrs(cls)) => ReweightDefined(self, y_pred)
         /\ Query("prepare_tree_params", [y_pred |-> y_pred], QueryAttrs(cls),
                  ReweightPrepareTreeParams(self, y_pred))

ReweightPrepareNewLeavesValuesCall ==
    /\ Fitted /\ IsReweight
    /\ \E a \in LeafArgs :
         /\ HasAll(self, QueryAttrs(cls)) => ReweightDefined(self, a.y_pred)
         /\ UNCHANGED train
         /\ Outcome("prepare_new_leaves_values", a,
                    IF ~HasAll(self, QueryAttrs(cls)) THEN Raise(self, "AttributeError")
                    ELSE IF ~Broadcastable(self.mask_target, self.y)
                    THEN Raise(self, "ValueError")
                    ELSE Return(self, ReweightPrepareNewLeavesValues(self, a.terminal_regions,
                                                                    a.y_pred)))

\* the caller takes the result (or the exception) of the pending call
TakeResult ==
    /\ call.op # "idle"
    /\ call' = Idle
    /\ UNCHANGED <<python, cls, self, train>>

NextHessian == TakeResult \/ Fit \/ NegativeGradient \/ Hessian \/ PrepareTreeParams \/ PrepareNewLeavesValues

InitHessian == InitClasses(ScalarClasses)
SpecHessian == InitHessian /\ [][NextHessian]_vars


\* the trainer fits a fresh instance once and then queries it
FitOnce == train = None /\ Fit

\* the trainer of a ranking model
NextRankBoost ==
    \/ TakeResult
    \/ FitOnce
    \/ Call
    \/ NegativeGradient
    \/ Hessian
    \/ PrepareTreeParams
    \/ PrepareNewLeavesValues

InitRankBoost == InitClasses({"RankBoostLossFunction"})
SpecRankBoost == InitRankBoost /\ [][NextRankBoost]_vars

\* the queries whose results are the derivatives of __call__
NextDerivatives == TakeResult \/ FitOnce \/ Call \/ NegativeGradient \/ Hessian

\* instances of every class; of the hyperparameters only those __call__,
\* negative_gradient and hessian read are varied
DerivativeConstructed(c) ==
    CASE c \in ScalarClasses -> {HessianInit(RInt(DefaultRegularization))}
      [] c = "KnnAdaLossFunction" ->
           {KnnAdaInit(<<1>>, 2, FALSE, RInt(1))}
      [] c = "RankBoostLossFunction" ->
           {RankBoostInit(m, 1) : m \in {"square", "linear"}}

InitDerivatives ==
    /\ python = 3
    /\ cls \in HessianClasses
    /\ self \in DerivativeConstructed(cls)
    /\ train = None
    /\ call = Idle
SpecDerivatives == InitDerivatives /\ [][NextDerivatives]_vars

\* the leaf update of a ranking model; the update reads no sample weight, the
\* trainer passes unit weights
RankLeavesFit ==
    FitOnce /\ \A i \in DOMAIN train'.sample_weight : train'.sample_weight[i] = RInt(1)

NextRankLeaves == TakeResult \/ RankLeavesFit \/ PrepareNewLeavesValues

InitRankLeaves ==
    /\ python = 3
    /\ cls = "RankBoostLossFunction"
    /\ self \in {RankBoostInit("square", k) : k \in UpdateIterationVals}
    /\ train = None
    /\ call = Idle
SpecRankLeaves == InitRankLeaves /\ [][NextRankLeaves]_vars

NextKnnAda == TakeResult \/ FitOnce \/ NegativeGradient

InitKnnAda == InitClasses({"KnnAdaLossFunction"})
SpecKnnAda == InitKnnAda /\ [][NextKnnAda]_vars

NextReweight ==
    \/ TakeResult
    \/ FitOnce
    \/ ReweightNegativeGradient
    \/ ReweightCall
    \/ ReweightPrepareTreeParamsCall
    \/ ReweightPrepareNewLeavesValuesCall

InitReweight == InitClasses({"ReweightLossFunction"})
SpecReweight == InitReweight /\ [][NextReweight]_vars

\* the predictions of a round: any score for the first events, 0 for the rest
FlatPreds ==
    {Padded(p, Len(train.y) - Len(p), 0) :
       p \in Vec(IF Len(train.y) < MaxNFlat THEN Len(train.y) ELSE MaxNFlat, FlatPredVals)}

IsFlatness == cls \in FlatnessClasses

\* the rounds the trainer has asked a gradient for, as far as debug_dict shows
DebugRounds(obj) ==
    IF HasAttr(obj, "debug_dict") /\ "pred" \in DOMAIN obj.debug_dict
    THEN Len(obj.debug_dict["pred"]) ELSE 0

FlatnessNegativeGradientCall ==
    /\ Fitted /\ IsFlatness
    /\ DebugRounds(self) < MaxDebug
    /\ \E y_pred \in FlatPreds :
         /\ Outcome("negative_gradient", [y_pred |-> y_pred],
                    FlatnessNegativeGradient(self, y_pred))
         /\ UNCHANGED train

\* AbstractFlatnessLossFunction.__call__
FlatnessCall ==
    /\ Fitted /\ IsFlatness
    /\ \E y_pred \in {[i \in DOMAIN train.y |-> 0]} :
         /\ Outcome("__call__", [y_pred |-> y_pred], Return(self, RInt(0)))
         /\ UNCHANGED train

NextFlatness == TakeResult \/ FitOnce \/ FlatnessNegativeGradientCall \/ FlatnessCall

InitFlatness == InitClasses(FlatnessClasses)
SpecFlatness == InitFlatness /\ [][NextFlatness]_vars

\* flatness losses of one uniform label, built with and without keep_debug_info
DebugConstructed(c) ==
    IF c = "BinFlatnessLossFunction"
    THEN {BinFlatnessInit(<<1>>, b, p, FALSE, d) :
            b \in FlatBinsVals, p \in PowerVals, d \in BOOLEAN}
    ELSE {KnnFlatnessInit(<<1>>, 1, 2, 1, FALSE, d, None) : d \in BOOLEAN}

\* neighbour-group losses built with an integer seed
SeededConstructed ==
    {KnnFlatnessInit(u, 1, 2, 1, FALSE, FALSE, Some(seed)) :
       u \in FlatUniformLabelVals, seed \in Seeds}

\* fit of an instance whose generator can still be asked for a selection
SeededFit == self.random_state.drawn + Len(self.uniform_label) <= MaxDraws /\ Fit

InitSeeded ==
    /\ python = 3
    /\ cls = "KnnFlatnessLossFunction"
    /\ self \in SeededConstructed
    /\ train = None
    /\ call = Idle
SpecSeeded == InitSeeded /\ [][TakeResult \/ SeededFit]_vars

InitDebug ==
    /\ python = 3
    /\ cls \in FlatnessClasses
    /\ self \in DebugConstructed(cls)
    /\ train = None
    /\ call = Idle
SpecDebug == InitDebug /\ [][NextFlatness]_vars

NextFit == TakeResult \/ FitOnce

InitFit ==
    /\ python \in PythonVersions
    /\ cls \in HessianClasses \cup {"ReweightLossFunction"} \cup FlatnessClasses
    /\ self \in Constructed(cls)
    /\ train = None
    /\ call = Idle
SpecFit == InitFit /\ [][NextFit]_vars

(***************************************************************************)
(* Properties.                                                             *)
(***************************************************************************)
RECURSIVE SetSum(_, _)
\* the sum of f[i] over the indices i of the set S
SetSum(f, S) ==
    IF S = {} THEN RInt(0)
    ELSE LET i == CHOOSE x \in S : TRUE IN RAdd(f[i], SetSum(f, S \ {i}))

FitCalled == train # None
Returned(op) == call.op = op /\ call.status = "return"

\* C1: after fit on a loss derived from HessianLossFunction the attribute
\* regularization_ is regularization * mean(sample_weight) of that fit, calls other
\* than fit leave it alone, and the default leaf update does not raise.
C1_RegularizationFixedAtFit ==
    (cls \in HessianClasses /\ FitCalled) =>
        /\ HasAttr(self, "regularization_")
        /\ self.regularization_ = RMul(self.regularization, NpMean(train.sample_weight))
        /\ call.op = "prepare_new_leaves_values" => call.status = "return"

\* C2: fit of every loss class returns the fitted loss object itself, never None.
C2_FitReturnsSelf ==
    Returned("fit") => call.value = "self"

LeafEvents(terminal_regions, l) == {i \in DOMAIN terminal_regions : terminal_regions[i] = l}

\* C3: the default leaf update returns, for every leaf id l of 0..len(leaf_values)-1,
\* (sum of residual over the events of l) / (sum of hessian(y_pred) over the events of l
\* + regularization_); an empty leaf gets 0 when regularization_ > 0, and a single leaf
\* with regularization = 0 gets sum(residual) / sum(hessian).
C3_DefaultLeafUpdate ==
    (cls \in ScalarClasses /\ Returned("prepare_new_leaves_values")) =>
        LET a == call.args
            hess == HessianOf(cls, self, a.y_pred)
            nl == Len(a.leaf_values)
            Num(l) == SetSum(a.residual, LeafEvents(a.terminal_regions, l))
            Hsum(l) == SetSum(hess, LeafEvents(a.terminal_regions, l))
            Den(l) == RAdd(Hsum(l), self.regularization_)
        IN  /\ Len(call.value) = nl
            /\ \A l \in 0..(nl - 1) :
                 /\ Den(l)[1] # 0 =>
                      /\ IsFinite(call.value[l + 1])
                      /\ RMul(call.value[l + 1], Den(l)) = Num(l)
                 /\ Den(l)[1] = 0 => ~IsFinite(call.value[l + 1])
                 /\ (LeafEvents(a.terminal_regions, l) = {} /\ RPos(self.regularization_))
                      => call.value[l + 1] = RInt(0)
            /\ (nl = 1 /\ self.regularization = RInt(0)) =>
                 RMul(call.value[1], NpSum(hess)) = NpSum(a.residual)

C3_Witness ==
    /\ cls \in ScalarClasses
    /\ Returned("prepare_new_leaves_values")
    /\ Len(call.args.leaf_values) = 2
    /\ LeafEvents(call.args.terminal_regions, 1) = {}
    /\ RPos(self.regularization_)
    /\ call.value[1] # RInt(0)
    /\ call.value[2] = RInt(0)

IdentityMatrix(n) == [r \in 1..n |-> [c \in 1..n |-> IF r = c THEN RInt(1) ELSE RInt(0)]]

\* knn = 1, distinguish_classes = False, row_norm = 1, and the neighbour index
\* returned each event as its own nearest neighbour
KnnDegenerate ==
    /\ cls = "KnnAdaLossFunction"
    /\ FitCalled
    /\ self.knn = 1
    /\ ~self.distinguish_classes
    /\ self.row_norm = RInt(1)
    /\ \A i \in DOMAIN train.y : train.X[i] = <<i>>

\* position of a label in the stacking order of compute_parameters: the uniform
\* labels in the order of uniform_label, then the other labels
StackKey(label) ==
    IF \E j \in DOMAIN self.uniform_label : self.uniform_label[j] = label
    THEN CHOOSE j \in DOMAIN self.uniform_label : self.uniform_label[j] = label
    ELSE Len(self.uniform_label) + 1 + label
DataInStackOrder ==
    \A i, j \in DOMAIN train.y : i < j => StackKey(train.y[i]) <= StackKey(train.y[j])

\* C4 as stated: in the degenerate configuration the coupling matrix A is the identity
\* matrix, whatever the order of the events of uniform and other labels in the data.
C4_CouplingIsIdentity ==
    (KnnDegenerate /\ Returned("fit")) => self.A = IdentityMatrix(Len(train.y))

\* C4 as amended: in the degenerate configuration A is a permutation matrix (n rows,
\* exactly one entry per row and per column, equal to 1), and it is the identity exactly
\* when the events come in the stacking order (uniform labels first, in the order of
\* uniform_label, then the other labels).
C4_CouplingIsPermutation ==
    (KnnDegenerate /\ Returned("fit")) =>
        LET n == Len(train.y)
        IN  /\ Len(self.A) = n
            /\ \A r \in 1..n : Cardinality({c \in 1..n : self.A[r][c] # RInt(0)}) = 1
            /\ \A c \in 1..n : Cardinality({r \in 1..n : self.A[r][c] # RInt(0)}) = 1
            /\ \A r, c \in 1..n : self.A[r][c] \in {RInt(0), RInt(1)}
            /\ (self.A = IdentityMatrix(n)) <=> DataInStackOrder

C4_Witness ==
    /\ KnnDegenerate
    /\ Returned("fit")
    /\ Len(train.y) = 2
    /\ self.A # IdentityMatrix(2)

\* C5: in the degenerate configuration negative_gradient(y_pred) equals the
\* negative gradient of an AdaLossFunction fitted on the same labels and weights,
\* event by event in the order of fit.
C5_GradientEqualsAda ==
    (KnnDegenerate /\ Returned("negative_gradient")) =>
        call.value = AdaNegativeGradient(
                        AdaFit(HessianInit(self.regularization), train.y,
                               train.sample_weight).self,
                        call.args.y_pred)

C5_Witness ==
    /\ KnnDegenerate
    /\ Returned("negative_gradient")
    /\ Len(train.y) = 2
    /\ self.A # IdentityMatrix(2)
    /\ train.sample_weight[1] # train.sample_weight[2]
    /\ call.args.y_pred[1] # call.args.y_pred[2]
    /\ call.value[1] # call.value[2]


\* C6: ReweightLossFunction.fit without weights succeeds, with weights of ones and the
\* signed indicator 2y-1; with explicit weights the indicator is (2y-1)*sign(weight),
\* one of -1, 0, +1.
C6_FitDefaultsWeights ==
    (cls = "ReweightLossFunction" /\ call.op = "fit") =>
        LET a == call.args
        IN  /\ call.status = "return"
            /\ a.sample_weight = None =>
                 /\ self.sample_weight = Ones(Len(a.y))
                 /\ self.signs = YSigned(a.y)
            /\ a.sample_weight # None =>
                 \A i \in DOMAIN a.y :
                     /\ self.signs[i] = (2 * a.y[i] - 1) * RSign(a.sample_weight[i])
                     /\ self.signs[i] \in {-1, 0, 1}

Max0(x) == IF RLt(x, RInt(0)) THEN RInt(0) ELSE x
\* log(v[1]) - log(v[2]) <= log(u[1]) - log(u[2]), for positive arguments
LogLe(v, u) == RLe(RMul(v[1], u[2]), RMul(u[1], v[2]))
LogLt(v, u) == RLt(RMul(v[1], u[2]), RMul(u[1], v[2]))

\* the sum of the recomputed weights of the events of leaf l with label `label`
LeafWeight(l, label) ==
    SetSum(ReweightComputeWeights(self, call.args.y_pred),
           {i \in DOMAIN train.y :
               call.args.terminal_regions[i] = l /\ train.y[i] = label})

MaxFeatures == 2
MaxRows == 2
MaxRowsBins == 1

FeatureVals == {0, 1}
NBinsVals == {2}
ScoreVals == {-1, 0, 1}

Rows(data) == Len(data.x)
\* data.shape[1] once a one-dimensional array got its second axis
Columns(data) == Len(data.x[1])

TablesOver(V, maxrows) ==
    UNION {{[ndim |-> 1, x |-> r] : r \in Vec(n, Vec(1, V))} \cup
           UNION {{[ndim |-> 2, x |-> r] : r \in Vec(n, Vec(d, V))} : d \in 1..MaxFeatures} :
           n \in 1..maxrows}

\* check_sample_weight(data, sample_weight, normalize=True) of
\* hep_ml.commonutils as the specification describes it: missing weights are
\* ones, the length and the sign of given weights are validated, and the
\* weights are divided by their mean
CheckSampleWeight(data, sample_weight) ==
    IF sample_weight = None THEN [status |-> "ok", weights |-> Ones(Rows(data))]
    ELSE IF \/ Len(sample_weight) # Rows(data)
            \/ \E i \in DOMAIN sample_weight : sample_weight[i] < 0
    THEN [status |-> "AssertionError", weights |-> None]
    ELSE [status |-> "ok", weights |-> NormalizeMean(RatVec(sample_weight))]

\* ReweighterMixin.normalize_input; n_features_ is None or Some(d)
NormalizeInput(obj, data, weights) ==
    LET checked == CheckSampleWeight(data, weights)
        s1 == IF obj.n_features_ = None
              THEN SetAttr(obj, "n_features_", Some(Columns(data))) ELSE obj
    IN  IF checked.status # "ok"
        THEN [self |-> obj, status |-> checked.status, weights |-> None]
        ELSE IF s1.n_features_ # Some(Columns(data))
        THEN [self |-> s1, status |-> "AssertionError", weights |-> None]
        ELSE [self |-> s1, status |-> "ok", weights |-> checked.weights]

\* BinsReweighter.__init__; n_features_ is the class attribute of the mixin
BinsInit(n_bins, n_neighs) ==
    [n_percentiles |-> n_bins, n_neighs |-> n_neighs, n_features_ |-> None]

TargetPerc_WithLast(n_bins) == [k \in 1..n_bins |-> RDiv(RInt(k), RInt(n_bins))]

\* numpy.linspace(0, 1, n_bins + 1)[1:-1]
TargetPerc(n_bins) == [k \in 1..(n_bins - 1) |-> RDiv(RInt(k), RInt(n_bins))]

\* numpy.interp(q, xp, fp) for non-decreasing xp
Interp(q, xp, fp) ==
    LET n == Len(xp) IN
    IF RLe(q, xp[1]) THEN fp[1]
    ELSE IF RLe(xp[n], q) THEN fp[n]
    ELSE LET k == CHOOSE j \in 1..(n - 1) : RLe(xp[j], q) /\ RLt(q, xp[j + 1])
         IN  RAdd(fp[k], RDiv(RMul(RSub(q, xp[k]), RSub(fp[k + 1], fp[k])),
                              RSub(xp[k + 1], xp[k])))

\* weighted_quantile(values, quantiles, sample_weight) of hep_ml.commonutils:
\* the values sorted, each at the normalized cumulative weight of its
\* midpoint, interpolated linearly at the quantiles
WeightedQuantile(values, quantiles, sample_weight) ==
    LET sorter == ArgsortOf(values, DOMAIN values)
        array == [k \in DOMAIN sorter |-> RInt(values[sorter[k]])]
        w == [k \in DOMAIN sorter |-> sample_weight[sorter[k]]]
        weighted_quantiles ==
            [k \in DOMAIN sorter |->
               RDiv(RSub(SumUpTo(w, k), RMul(<<1, 2>>, w[k])), NpSum(w))]
    IN  [q \in DOMAIN quantiles |-> Interp(quantiles[q], weighted_quantiles, array)]

\* BinsReweighter.compute_bin_indices: one row of bin indices per event, one
\* index per axis of the stored edges
ComputeBinIndices(edges, data) ==
    [i \in DOMAIN data.x |->
       [axis \in DOMAIN edges |-> SearchSorted(edges[axis], data.x[i][axis])]]

\* the cells of an array of the given shape
Cells(shape) == {c \in Vec(Len(shape), 0..SeqMax(shape, Len(shape))) :
                   \A a \in DOMAIN shape : c[a] < shape[a]}

\* bincount_nd: the weighted number of events of every cell
BincountNd(x, weights, shape) ==
    IF Len(weights) # Len(x) \/ Len(x[1]) # Len(shape)
       \/ \E i \in DOMAIN x : \E a \in DOMAIN shape : x[i][a] >= shape[a]
    THEN [status |-> "AssertionError", result |-> None]
    ELSE [status |-> "ok",
          result |-> [c \in Cells(shape) |->
                        SetSumOf(weights, {i \in DOMAIN x : x[i] = c})]]

\* scipy's gaussian_filter applies a normalized symmetric positive kernel
\* along every axis, reflecting the array at its borders; the kernel is
\* modelled by three taps with rational weights
SmoothingKernel == [o \in {-1, 0, 1} |-> IF o = 0 THEN <<1, 2>> ELSE <<1, 4>>]

Reflect(i, length) == IF i < 0 THEN 0 ELSE IF i >= length THEN length - 1 ELSE i

SmoothAxis(h, axis, shape) ==
    [c \in DOMAIN h |->
       LET tap(o) == RMul(SmoothingKernel[o],
                          h[[c EXCEPT ![axis] = Reflect(c[axis] + o, shape[axis])]])
       IN  RAdd(RAdd(tap(-1), tap(0)), tap(1))]

RECURSIVE GaussianFilterUpTo(_, _, _)
GaussianFilterUpTo(h, axis, shape) ==
    IF axis = 0 THEN h ELSE SmoothAxis(GaussianFilterUpTo(h, axis - 1, shape), axis, shape)

GaussianFilter(h, shape) == GaussianFilterUpTo(h, Len(shape), shape)

\* BinsReweighter.fit
BinsFit(obj, a) ==
    LET s0 == SetAttr(obj, "n_features_", None)
        orig == NormalizeInput(s0, a.original, a.original_weight)
        targ == NormalizeInput(orig.self, a.target, a.target_weight)
        s2 == targ.self
        d == s2.n_features_[1]
        target_perc == TargetPerc(s2.n_percentiles)
        edges == [axis \in 1..d |->
                    WeightedQuantile([i \in DOMAIN a.target.x |-> a.target.x[i][axis]],
                                     target_perc, targ.weights)]
        s3 == SetAttr(s2, "edges", edges)
        shape == [axis \in 1..d |-> s2.n_percentiles]
        bin_orig == BincountNd(ComputeBinIndices(edges, a.original), orig.weights, shape)
        bin_targ == BincountNd(ComputeBinIndices(edges, a.target), targ.weights, shape)
        bin_orig_weights == GaussianFilter(bin_orig.result, shape)
        bin_targ_weights == GaussianFilter(bin_targ.result, shape)
        transition == [c \in Cells(shape) |->
                         RDiv(bin_targ_weights[c], RAdd(bin_orig_weights[c], RInt(1)))]
    IN  IF orig.status # "ok" THEN Raise(orig.self, orig.status)
        ELSE IF targ.status # "ok" THEN Raise(targ.self, targ.status)
        ELSE IF bin_orig.status # "ok" THEN Raise(s3, bin_orig.status)
        ELSE IF bin_targ.status # "ok" THEN Raise(s3, bin_targ.status)
        ELSE Return(SetAttr(s3, "transition", transition), "self")

\* BinsReweighter.predict_weights
BinsPredictWeights(obj, a) ==
    LET orig == NormalizeInput(obj, a.original, a.original_weight)
        s1 == orig.self
    IN  IF orig.status # "ok" THEN Raise(s1, orig.status)
        ELSE IF ~HasAttr(s1, "edges") THEN Raise(s1, "AttributeError")
        ELSE IF Len(s1.edges) > Columns(a.original) THEN Raise(s1, "IndexError")
        ELSE LET bin_indices == ComputeBinIndices(s1.edges, a.original)
             IN  Return(s1, [i \in DOMAIN bin_indices |->
                               RMul(s1.transition[bin_indices[i]], orig.weights[i])])

\* GBReweighter.__init__
GBInit(other_args) == [other_args |-> other_args, n_features_ |-> None]

\* GBReweighter.fit; the trained classifier is kept by the number of features
\* it was trained on
GBFit(obj, a) ==
    LET s0 == SetAttr(obj, "n_features_", None)
        s1 == IF s0.other_args = "None" THEN SetAttr(s0, "other_args", "{}") ELSE s0
        orig == NormalizeInput(s1, a.original, a.original_weight)
        targ == NormalizeInput(orig.self, a.target, a.target_weight)
    IN  IF orig.status # "ok" THEN Raise(orig.self, orig.status)
        ELSE IF targ.status # "ok" THEN Raise(targ.self, targ.status)
        ELSE Return(SetAttr(targ.self, "gb", [n_features |-> targ.self.n_features_[1]]),
                    "self")

\* predict_weights returning the multipliers alone, without the weights
GBPredictWeights_NoWeight(obj, a) ==
    LET orig == NormalizeInput(obj, a.original, a.original_weight)
        s1 == orig.self
    IN  IF orig.status # "ok" THEN Raise(s1, orig.status)
        ELSE IF ~HasAttr(s1, "gb") THEN Raise(s1, "AttributeError")
        ELSE IF a.decision_function.status # "ok" THEN Raise(s1, a.decision_function.status)
        ELSE Return(s1, [i \in DOMAIN a.original.x |-> Exp(a.decision_function.score[i])])

\* GBReweighter.predict_weights; a.decision_function is the answer of the
\* trained classifier for the data of the call
GBPredictWeights(obj, a) ==
    LET orig == NormalizeInput(obj, a.original, a.original_weight)
        s1 == orig.self
    IN  IF orig.status # "ok" THEN Raise(s1, orig.status)
        ELSE IF ~HasAttr(s1, "gb") THEN Raise(s1, "AttributeError")
        ELSE IF a.decision_function.status # "ok" THEN Raise(s1, a.decision_function.status)
        ELSE Return(s1, [i \in DOMAIN a.original.x |->
                           RMul(Exp(a.decision_function.score[i]), orig.weights[i])])

\* the weights a caller passes for n events: none, non-negative weights of a
\* positive total, negative weights, or one weight too many
WeightArgs(n) ==
    {None} \cup {w \in Vec(n, {0, 1}) : \E i \in 1..n : w[i] > 0}
           \cup {[i \in 1..n |-> -1], [i \in 1..(n + 1) |-> 1]}

ReweighterTables(c) ==
    IF c = "BinsReweighter" THEN TablesOver(FeatureVals, MaxRowsBins)
    ELSE TablesOver({0}, MaxRows)

ReweighterFitArgs(c) ==
    UNION {UNION {[original : {o}, target : {t},
                   original_weight : WeightArgs(Rows(o)),
                   target_weight : WeightArgs(Rows(t))] :
                  t \in ReweighterTables(c)} : o \in ReweighterTables(c)}

\* what gb.decision_function answers: a score per event, or, when the data
\* has not the number of features of the training data, possibly an error
DecisionFunction(obj, data) ==
    {[status |-> "ok", score |-> s] : s \in Vec(Rows(data), ScoreVals)}
    \cup (IF HasAttr(obj, "gb") /\ obj.gb.n_features # Columns(data)
          THEN {[status |-> "ValueError", score |-> None]} ELSE {})

PredictArgs(c, obj) ==
    UNION {[original : {o}, original_weight : WeightArgs(Rows(o)),
            decision_function : IF c = "GBReweighter" THEN DecisionFunction(obj, o)
                                ELSE {None}] :
           o \in ReweighterTables(c)}

\* of a fit of a reweighter, train keeps the number of columns of the data
ReweighterFit ==
    /\ call.op = "idle"
    /\ \E a \in ReweighterFitArgs(cls) :
          /\ train' = [columns |-> Columns(a.original)]
          /\ Outcome("fit", a, IF cls = "BinsReweighter" THEN BinsFit(self, a)
                               ELSE GBFit(self, a))

PredictWeights ==
    /\ call.op = "idle"
    /\ \E a \in PredictArgs(cls, self) :
          /\ Outcome("predict_weights", a,
                     IF cls = "BinsReweighter" THEN BinsPredictWeights(self, a)
                     ELSE GBPredictWeights(self, a))
          /\ UNCHANGED train

NextReweighter == TakeResult \/ ReweighterFit \/ PredictWeights

InitBinsReweighter ==
    /\ python = 3
    /\ cls = "BinsReweighter"
    /\ self \in {BinsInit(n, 3) : n \in NBinsVals}
    /\ train = None
    /\ call = Idle
SpecBinsReweighter == InitBinsReweighter /\ [][NextReweighter]_vars

InitGBReweighter ==
    /\ python = 3
    /\ cls = "GBReweighter"
    /\ self \in {GBInit(o) : o \in {"None", "{}"}}
    /\ train = None
    /\ call = Idle
SpecGBReweighter == InitGBReweighter /\ [][NextReweighter]_vars

FittedColumns ==
    IF HasAttr(self, "edges") THEN {Len(self.edges)}
    ELSE IF HasAttr(self, "gb") THEN {self.gb.n_features}
    ELSE {}

\* C9: a predict_weights call that returns weights was given data with the
\* number of columns of the last fit (of the data that fit was called with,
\* or of the state the last completed fit left)
C9_PredictMatchesLastFit ==
    (FitCalled /\ Returned("predict_weights")) =>
        Columns(call.args.original) \in {train.columns} \cup FittedColumns

\* the events of the uniform labels that are in no group of the fitted state
Ungrouped(obj) ==
    {i \in DOMAIN obj.y :
        /\ obj.y[i] \in Range(obj.uniform_label)
        /\ \A label \in DOMAIN obj.group_indices :
              \A g \in DOMAIN obj.group_indices[label] :
                 i \notin Range(obj.group_indices[label][g])}

UniformEvents(obj) == {i \in DOMAIN obj.y : obj.y[i] \in Range(obj.uniform_label)}

\* a query on a completely fitted flatness loss returned
FlatnessAnswered(op) == IsFlatness /\ Returned(op) /\ HasAttr(self, "divided_weight")

\* every ungrouped event of a uniform label got the Ada term alone
OnlyAdaTermForUngrouped ==
    FlatnessAnswered("negative_gradient") =>
        \A i \in Ungrouped(self) :
           call.value[i] = RMul(RInt(self.ada_coefficient * self.y_signed[i]),
                                RMul(self.sample_weight[i],
                                     ExpMargin(-self.y_signed[i] * call.args.y_pred[i])))

\* C10: fit of a flatness loss warns exactly when more than 1% of the events of
\* the uniform labels are in no group; a fit that warns completes, and every
\* later negative_gradient gives those events the Ada term alone
C10_WarningShareOfUniformLabels ==
    /\ FlatnessAnswered("fit") =>
          /\ call.value = "self"
          /\ (call.warnings # <<>>) <=>
                (Cardinality(Ungrouped(self)) * 100 > Cardinality(UniformEvents(self)))
    /\ OnlyAdaTermForUngrouped

\* C10 (amended): fit of a flatness loss warns exactly when the events of the
\* uniform labels that are in no group are more than 1% of all the events of
\* the training set; a fit that warns completes, and every later
\* negative_gradient gives those events the Ada term alone
C10_WarningShareOfAllEvents ==
    /\ FlatnessAnswered("fit") =>
          /\ call.value = "self"
          /\ (call.warnings # <<>>) <=> (Cardinality(Ungrouped(self)) * 100 > Len(self.y))
    /\ (IsFlatness /\ call.op = "fit" /\ call.warnings # <<>>) => call.status = "return"
    /\ OnlyAdaTermForUngrouped

C10_Witness ==
    /\ FlatnessAnswered("negative_gradient")
    /\ Cardinality(Ungrouped(self)) * 100 > Len(self.y)
    /\ \E i \in Ungrouped(self) : call.value[i] # RInt(0)
    /\ \E j \in UniformEvents(self) \ Ungrouped(self) :
          call.value[j] # RMul(RInt(self.ada_coefficient * self.y_signed[j]),
                               RMul(self.sample_weight[j],
                                    ExpMargin(-self.y_signed[j] * call.args.y_pred[j])))

\* C11: a RankBoostLossFunction built with a messup_penalty other than 'square'
\* and 'linear' fails at every fit, whatever the training set, and the failed
\* fit leaves no penalty matrices to query
C11_UnsupportedPenaltyFailsAtFit ==
    (/\ cls = "RankBoostLossFunction"
     /\ self.messup_penalty \notin {"square", "linear"}
     /\ call.op = "fit") =>
        /\ call.status = "raise"
        /\ ~HasAttr(self, "penalty_matrices")

WithoutDebug(obj) == [a \in DOMAIN obj \ {"debug_dict"} |-> obj[a]]

C13_SeededFitsReproducible ==
    [][(call'.op = "fit" /\ call'.status = "return") =>
          /\ self'.random_state = self.random_state
          /\ (train # None /\ train' = train /\ HasAttr(self, "group_indices")) =>
                self'.group_indices = self.group_indices]_vars

(***************************************************************************)
(* Derivatives of __call__ by exact differences.  For a sum f of multiples *)
(* of exp(a p), exp(-a p) and a constant, in one prediction p:             *)
(*   f(p + 1) - f(p - 1)          = f'(p)  * (exp(a) - exp(-a)) / a        *)
(*   f(p + 1) - 2 f(p) + f(p - 1) = f''(p) * (exp(a) + exp(-a) - 2) / a^2  *)
(* and for a polynomial of degree two the two differences are 2 f'(p) and  *)
(* f''(p).  The rate a is given in halves.                                 *)
(***************************************************************************)
Shifted(y_pred, i, d) == [y_pred EXCEPT ![i] = @ + d]
SinhStep(halves) == RSub(ExpHalf(halves), ExpHalf(-halves))
CoshStep(halves) == RSub(RAdd(ExpHalf(halves), ExpHalf(-halves)), RInt(2))

\* first and second derivative of an exponent sum from its values at p + 1, p, p - 1
ExpFirst(up, down, halves) == RMul(<<halves, 2>>, RDiv(RSub(up, down), SinhStep(halves)))
ExpSecond(up, at, down, halves) ==
    RMul(<<halves * halves, 4>>,
         RDiv(RAdd(RSub(up, RMul(RInt(2), at)), down), CoshStep(halves)))

\* first and second derivative of weight * log(u) for u = 1 + exp(-+p), from
\* the terms at p + 1, p, p - 1: weight * u' / u and weight * (u'' u - u'^2) / u^2
LogFirst(up, at, down) ==
    RMul(at.weight, RDiv(ExpFirst(up.log_of, down.log_of, 2), at.log_of))
LogSecond(up, at, down) ==
    RMul(at.weight,
         RDiv(RSub(RMul(ExpSecond(up.log_of, at.log_of, down.log_of, 2), at.log_of),
                   RMul(ExpFirst(up.log_of, down.log_of, 2),
                        ExpFirst(up.log_of, down.log_of, 2))),
              RMul(at.log_of, at.log_of)))

\* The matrix loss in the prediction p of one event of sign s is
\* f(p) = c + h x + g x^2 for x = exp(-s p / 2): column i of A holds 1 / knn
\* in the rows of the neighbours (knn is 1 or 2) and 1 in an identity row.
\* With t = exp(-s / 2), f(p + 1) - f(p) = h x (t - 1) + g x^2 (t^2 - 1) and
\* f(p) - f(p - 1) = h x (t - 1) / t + g x^2 (t^2 - 1) / t^2, which give the
\* two parts h x and g x^2; f' = -s (h x / 2 + g x^2), f'' = h x / 4 + g x^2.
HalfRatePart(up, at, down, t) ==
    RDiv(RSub(RMul(RMul(t, t), RSub(at, down)), RSub(up, at)),
         RMul(RSub(t, RInt(1)), RSub(t, RInt(1))))
FullRatePart(up, at, down, t) ==
    RDiv(RMul(t, RSub(RSub(up, at), RMul(t, RSub(at, down)))),
         RMul(RSub(RMul(t, t), RInt(1)), RSub(t, RInt(1))))
MatrixFirst(up, at, down, sign) ==
    RMul(RInt(-sign),
         RAdd(RMul(<<1, 2>>, HalfRatePart(up, at, down, ExpHalf(-sign))),
              FullRatePart(up, at, down, ExpHalf(-sign))))
MatrixSecond(up, at, down, sign) ==
    RAdd(RMul(<<1, 4>>, HalfRatePart(up, at, down, ExpHalf(-sign))),
         FullRatePart(up, at, down, ExpHalf(-sign)))

\* the derivative of __call__ with respect to the prediction of event i
FirstDerivative(c, obj, p, i) ==
    CASE c = "AdaLossFunction" ->
           ExpFirst(AdaCall(obj, Shifted(p, i, 1)), AdaCall(obj, Shifted(p, i, -1)), 2)
      [] c = "KnnAdaLossFunction" ->
           MatrixFirst(MatrixCall(obj, Shifted(p, i, 1)), MatrixCall(obj, p),
                       MatrixCall(obj, Shifted(p, i, -1)), obj.y_signed[i])
      [] c = "MSELossFunction" ->
           RMul(<<1, 2>>, RSub(MSECall(obj, Shifted(p, i, 1)), MSECall(obj, Shifted(p, i, -1))))
      [] c = "LogLossFunction" ->
           LogFirst(LogCall(obj, Shifted(p, i, 1))[i], LogCall(obj, p)[i],
                    LogCall(obj, Shifted(p, i, -1))[i])
      [] c = "CompositeLossFunction" ->
           RAdd(LogFirst(CompositeCall(obj, Shifted(p, i, 1)).logs[i],
                         CompositeCall(obj, p).logs[i],
                         CompositeCall(obj, Shifted(p, i, -1)).logs[i]),
                ExpFirst(CompositeCall(obj, Shifted(p, i, 1)).exps,
                         CompositeCall(obj, Shifted(p, i, -1)).exps, 1))
      [] c = "RankBoostLossFunction" ->
           SScale(RDiv(RInt(1), SinhStep(2)),
                  SSub(RankBoostCall(obj, Shifted(p, i, 1)),
                       RankBoostCall(obj, Shifted(p, i, -1))))

\* the second derivative of __call__ with respect to the prediction of event i
SecondDerivative(c, obj, p, i) ==
    CASE c = "AdaLossFunction" ->
           ExpSecond(AdaCall(obj, Shifted(p, i, 1)), AdaCall(obj, p),
                     AdaCall(obj, Shifted(p, i, -1)), 2)
      [] c = "KnnAdaLossFunction" ->
           MatrixSecond(MatrixCall(obj, Shifted(p, i, 1)), MatrixCall(obj, p),
                        MatrixCall(obj, Shifted(p, i, -1)), obj.y_signed[i])
      [] c = "MSELossFunction" ->
           RAdd(RSub(MSECall(obj, Shifted(p, i, 1)), RMul(RInt(2), MSECall(obj, p))),
                MSECall(obj, Shifted(p, i, -1)))
      [] c = "LogLossFunction" ->
           LogSecond(LogCall(obj, Shifted(p, i, 1))[i], LogCall(obj, p)[i],
                     LogCall(obj, Shifted(p, i, -1))[i])
      [] c = "CompositeLossFunction" ->
           RAdd(LogSecond(CompositeCall(obj, Shifted(p, i, 1)).logs[i],
                          CompositeCall(obj, p).logs[i],
                          CompositeCall(obj, Shifted(p, i, -1)).logs[i]),
                ExpSecond(CompositeCall(obj, Shifted(p, i, 1)).exps,
                          CompositeCall(obj, p).exps,
                          CompositeCall(obj, Shifted(p, i, -1)).exps, 1))
      [] c = "RankBoostLossFunction" ->
           SScale(RDiv(RInt(1), CoshStep(2)),
                  SAdd(SSub(RankBoostCall(obj, Shifted(p, i, 1)),
                            SScale(RInt(2), RankBoostCall(obj, p))),
                       RankBoostCall(obj, Shifted(p, i, -1))))

\* minus a rational or minus a sum over square roots
Minus(c, v) == IF c = "RankBoostLossFunction" THEN SScale(RInt(-1), v) ELSE RNeg(v)

\* C14: for every loss derived from HessianLossFunction and every event,
\* negative_gradient is minus the first derivative and hessian is the second
\* derivative of __call__ with respect to the prediction of the event
C14_DerivativesOfCall ==
    /\ (cls \in HessianClasses /\ Returned("negative_gradient")) =>
          \A i \in DOMAIN call.args.y_pred :
             call.value[i] = Minus(cls, FirstDerivative(cls, self, call.args.y_pred, i))
    /\ (cls \in HessianClasses /\ Returned("hessian")) =>
          \A i \in DOMAIN call.args.y_pred :
             call.value[i] = SecondDerivative(cls, self, call.args.y_pred, i)

C14_Witness ==
    /\ cls = "RankBoostLossFunction" /\ Returned("negative_gradient")
    /\ \E i, j \in DOMAIN call.value :
          /\ call.value[i] # <<>>
          /\ call.value[j] # <<>>
          /\ call.value[i] # call.value[j]
    /\ Cardinality(Range(self.queries)) > 1

\* the penalty of the pair of ranks (r1, r2)
ClaimedPenalty(kind, r1, r2) ==
    IF ~(r1 < r2) THEN RInt(0)
    ELSE IF kind = "square" THEN RInt((r2 - r1) * (r2 - r1))
    ELSE RInt(r2 - r1)

\* the matrix addressed by the positions of the ranks among the sorted distinct ranks
ClaimedRankPenalties(kind, y) ==
    LET ranks == SortedSeq(Range(y))
    IN  [a \in DOMAIN ranks |-> [b \in DOMAIN ranks |-> ClaimedPenalty(kind, ranks[a], ranks[b])]]

\* C15: for every set of distinct rank labels in y, fit with 'square' or
\* 'linear' builds the penalty matrix addressed by the positions of the ranks
\* among the sorted distinct ranks, scaled by 1 / sqrt(1 + n_events) and, per
\* query, by 1 / sqrt(1 + events of the query)
C15_PenaltyMatrixByPosition ==
    (/\ cls = "RankBoostLossFunction"
     /\ self.messup_penalty \in {"square", "linear"}
     /\ call.op = "fit") =>
        /\ call.status = "return"
        /\ self.rank_penalties = ClaimedRankPenalties(self.messup_penalty, call.args.y)
        /\ self.penalty_matrices[1] =
              [matrix |-> ClaimedRankPenalties(self.messup_penalty, call.args.y),
               over_sqrt |-> 1 + Len(call.args.y)]
        /\ \A q \in DOMAIN self.penalty_matrices[2].blocks :
              self.penalty_matrices[2].blocks[q] =
                 [matrix |-> ClaimedRankPenalties(self.messup_penalty, call.args.y),
                  over_sqrt |-> 1 + Cardinality({i \in DOMAIN call.args.X :
                                    call.args.X[i] = self.possible_queries[q]})]

\* w_ij of the loss sum of w_ij exp(pred_i - pred_j): the penalty of the ranks
\* of i and j over sqrt(1 + n_events), and once more over sqrt(1 + events of
\* the query) when i and j share their query
PairWeight(obj, i, j) ==
    LET penalty == obj.rank_penalties[obj.lookups[1][i] + 1][obj.lookups[1][j] + 1]
        same == {e \in DOMAIN obj.queries : obj.queries[e] = obj.queries[i]}
    IN  SAdd(OverSqrt(penalty, 1 + Len(obj.y)),
             IF obj.queries[i] = obj.queries[j]
             THEN OverSqrt(penalty, 1 + Cardinality(same))
             ELSE <<>>)

\* the weight of exp(+step) and of exp(-step) in the loss of the events of a leaf
PairWPlus(obj, a, l) ==
    SAdd(SSetSum([i \in DOMAIN a.y_pred |->
                    SSetSum([j \in DOMAIN a.y_pred |->
                               SScale(Exp(a.y_pred[i] - a.y_pred[j]), PairWeight(obj, i, j))],
                            DOMAIN a.y_pred)],
                 {i \in DOMAIN a.y_pred : a.terminal_regions[i] = l - 1}),
         OverSqrt(obj.regularization, 1))
PairWMinus(obj, a, l) ==
    SAdd(SSetSum([i \in DOMAIN a.y_pred |->
                    SSetSum([j \in DOMAIN a.y_pred |->
                               SScale(Exp(a.y_pred[j] - a.y_pred[i]), PairWeight(obj, j, i))],
                            DOMAIN a.y_pred)],
                 {i \in DOMAIN a.y_pred : a.terminal_regions[i] = l - 1}),
         OverSqrt(obj.regularization, 1))

RECURSIVE BlendedLeaves(_, _, _, _)
\* the estimate after k steps when a step keeps the factor `kept` of the previous estimate
BlendedLeaves(obj, a, k, kept) ==
    IF k = 0 THEN [l \in DOMAIN a.leaf_values |-> <<>>]
    ELSE LET previous == BlendedLeaves(obj, a, k - 1, kept)
         IN  [l \in DOMAIN a.leaf_values |->
                Append([e \in DOMAIN previous[l] |->
                          <<RMul(kept, previous[l][e][1]), previous[l][e][2]>>],
                       <<(<<1, 2>>),
                         IF k = 1
                         THEN [half_log_ratio |-> <<PairWMinus(obj, a, l), PairWPlus(obj, a, l)>>]
                         ELSE [leaf |-> l - 1, closed_form_at |-> previous]>>)]

\* every leaf holds an event
AllLeavesHit(a) == {a.terminal_regions[i] : i \in DOMAIN a.terminal_regions} = 0..(Len(a.leaf_values) - 1)

\* C16 as stated: after a fit that succeeded and for leaves that all hold an
\* event, prepare_new_leaves_values runs update_iterations steps from zero, each the closed form
\* 0.5 * log(w_minus / w_plus) at the current estimate, the new estimate being
\* 0.5 * step + 0.5 * previous
C16_LeavesBlendHalfHalf ==
    (/\ cls = "RankBoostLossFunction"
     /\ call.op = "prepare_new_leaves_values"
     /\ HasAttr(self, "penalty_matrices")
     /\ AllLeavesHit(call.args)) =>
        /\ call.status = "return"
        /\ call.value = BlendedLeaves(self, call.args, self.update_terations, <<1, 2>>)

\* C16 as the code has it: the same steps, but the new estimate is
\* previous + 0.5 * step, the previous estimate kept whole
C16_LeavesAddHalfStep ==
    (/\ cls = "RankBoostLossFunction"
     /\ call.op = "prepare_new_leaves_values"
     /\ HasAttr(self, "penalty_matrices")
     /\ AllLeavesHit(call.args)) =>
        /\ call.status = "return"
        /\ call.value = BlendedLeaves(self, call.args, self.update_terations, RInt(1))

C16_Witness ==
    /\ cls = "RankBoostLossFunction"
    /\ Returned("prepare_new_leaves_values")
    /\ self.update_terations = 2
    /\ Len(call.args.leaf_values) = 2
    /\ AllLeavesHit(call.args)
    /\ \E l \in DOMAIN call.value :
          call.value[l][1][2].half_log_ratio[1] # call.value[l][1][2].half_log_ratio[2]

(***************************************************************************)
(* The rank-position primitive on its own: a caller passes its arrays, the *)
(* result and the arrays of the caller after the call are observed.        *)
(***************************************************************************)
\* _compute_positions with the caller's sample_weight after the call:
\* sample_weight[order] is an index array selection, which copies, and the
\* division in place acts on the copy
ComputePositionsCall(y_pred, sample_weight) ==
    [value |-> ComputePositions(y_pred, sample_weight), sample_weight |-> sample_weight]

PositionsCall ==
    /\ call.op = "idle"
    /\ \E n \in 1..(MaxN + 1) :
         \E y_pred \in Vec(n, PredVals), sample_weight \in WeightVecs(n) :
            LET r == ComputePositionsCall(y_pred, sample_weight)
            IN  /\ call' = [op |-> "_compute_positions",
                            args |-> [y_pred |-> y_pred, sample_weight |-> sample_weight],
                            status |-> "return", value |-> r.value, warnings |-> <<>>]
                /\ train' = [sample_weight |-> r.sample_weight]
    /\ UNCHANGED <<python, cls, self>>

NextPositions == TakeResult \/ PositionsCall

InitPositions ==
    /\ python = 3
    /\ cls = "module"
    /\ self = None
    /\ train = None
    /\ call = Idle
SpecPositions == InitPositions /\ [][NextPositions]_vars

\* the events ordered before event i by prediction: a lower prediction, or the
\* same prediction and an earlier place in the input
OrderedBefore(y_pred, i) ==
    {j \in DOMAIN y_pred : y_pred[j] < y_pred[i] \/ (y_pred[j] = y_pred[i] /\ j < i)}

\* C17 as stated: the position of an event is the cumulative weight of the
\* events ordered before it minus half of its own weight, over the total
\* weight, in input order, and the caller's sample_weight is not modified
C17_PositionBeforeMinusHalf ==
    Returned("_compute_positions") =>
        /\ \A i \in DOMAIN call.args.y_pred :
              call.value[i] =
                 RDiv(RSub(SetSum(call.args.sample_weight, OrderedBefore(call.args.y_pred, i)),
                           RMul(<<1, 2>>, call.args.sample_weight[i])),
                      NpSum(call.args.sample_weight))
        /\ train.sample_weight = call.args.sample_weight

\* C17 as the code has it: the cumulative weight up to and including the event
\* minus half of its own weight, that is the weight before it plus half of its own
C17_PositionBeforePlusHalf ==
    Returned("_compute_positions") =>
        /\ DOMAIN call.value = DOMAIN call.args.y_pred
        /\ \A i \in DOMAIN call.args.y_pred :
              call.value[i] =
                 RDiv(RAdd(SetSum(call.args.sample_weight, OrderedBefore(call.args.y_pred, i)),
                           RMul(<<1, 2>>, call.args.sample_weight[i])),
                      NpSum(call.args.sample_weight))
        /\ train.sample_weight = call.args.sample_weight

C17_Witness ==
    /\ Returned("_compute_positions")
    /\ Len(call.args.y_pred) = 3
    /\ call.args.y_pred[1] > call.args.y_pred[2]
    /\ call.args.y_pred[2] = call.args.y_pred[3]
    /\ call.args.sample_weight[2] # call.args.sample_weight[3]
    /\ call.value[1] = <<7, 8>>

(***************************************************************************)
(* The groups of BinFlatnessLossFunction on their own: fits of unweighted  *)
(* training sets of one uniform feature.                                   *)
(***************************************************************************)
GroupBinsVals == {1, 2}

BinGroupsFit ==
    /\ call.op = "idle" /\ train = None
    /\ \E n \in 1..(MaxNFlat + 1) :
         \E X \in Vec(n, FlatFeatureVals), y \in Vec(n, Labels) :
            LET a == [X |-> X, y |-> y, sample_weight |-> None, choice |-> None]
            IN  /\ train' = a
                /\ Outcome("fit", a, DoFit(cls, self, a, python))

NextBinGroups == TakeResult \/ BinGroupsFit

InitBinGroups ==
    /\ python = 3
    /\ cls = "BinFlatnessLossFunction"
    /\ self \in {BinFlatnessInit(u, b, 2, FALSE, FALSE) :
                   u \in FlatUniformLabelVals, b \in GroupBinsVals}
    /\ train = None
    /\ call = Idle
SpecBinGroups == InitBinGroups /\ [][NextBinGroups]_vars

\* the groups of a label that hold an event, and those that hold event i
HeldGroups(label) ==
    {g \in DOMAIN self.group_indices[label] : self.group_indices[label][g] # <<>>}
GroupsOf(label, i) ==
    {g \in DOMAIN self.group_indices[label] : i \in Range(self.group_indices[label][g])}

\* C18 as stated: each of the two grids partitions the range of the label into
\* n_bins bins, so a label has at most 2 * n_bins groups that hold an event;
\* every event of the label is in at most two groups, events of other labels in none
C18_TwoGridsOfNBins ==
    (cls = "BinFlatnessLossFunction" /\ Returned("fit")) =>
        \A label \in Range(self.uniform_label) :
           /\ Cardinality(HeldGroups(label)) <= 2 * self.n_bins
           /\ \A i \in DOMAIN self.y :
                 IF self.y[i] = label THEN Cardinality(GroupsOf(label, i)) <= 2
                 ELSE GroupsOf(label, i) = {}

\* the lowest and the highest feature value of the events of a label
LabelMin(label) ==
    CHOOSE v \in {call.args.X[i] : i \in LabelEvents(call.args.y, label)} :
        \A i \in LabelEvents(call.args.y, label) : v <= call.args.X[i]
LabelMax(label) ==
    CHOOSE v \in {call.args.X[i] : i \in LabelEvents(call.args.y, label)} :
        \A i \in LabelEvents(call.args.y, label) : v >= call.args.X[i]

\* the bin of the value x in the grid of n_bins bins of width (max - min) / n_bins
\* from min, and in the grid moved down by half a bin width, which has n_bins + 1
\* bins, the first and the last half as wide; a value on an edge is in the lower bin
PlainBin(label, x) ==
    Cardinality({k \in 1..(self.n_bins - 1) :
                   2 * self.n_bins * LabelMin(label) + 2 * k * (LabelMax(label) - LabelMin(label))
                      < 2 * self.n_bins * x})
MovedBin(label, x) ==
    Cardinality({k \in 1..self.n_bins :
                   2 * self.n_bins * LabelMin(label)
                      + (2 * k - 1) * (LabelMax(label) - LabelMin(label))
                      < 2 * self.n_bins * x})

\* C18 as the code has it: one grid of n_bins bins and one, moved by half a
\* bin width, of n_bins + 1 bins; every event of the label is in exactly two
\* groups, its bin of either grid, and events of other labels are in none
C18_GridsOfNBinsAndOneMore ==
    (cls = "BinFlatnessLossFunction" /\ Returned("fit")) =>
        \A label \in Range(self.uniform_label) :
           /\ Cardinality(HeldGroups(label)) <= 2 * self.n_bins + 1
           /\ \A i \in DOMAIN self.y :
                 IF self.y[i] = label
                 THEN /\ Cardinality(GroupsOf(label, i)) = 2
                      /\ {Range(self.group_indices[label][g]) : g \in GroupsOf(label, i)} =
                            {{j \in LabelEvents(self.y, label) :
                                MovedBin(label, call.args.X[j]) = MovedBin(label, call.args.X[i])},
                             {j \in LabelEvents(self.y, label) :
                                PlainBin(label, call.args.X[j]) = PlainBin(label, call.args.X[i])}}
                 ELSE GroupsOf(label, i) = {}

C18_Witness ==
    /\ cls = "BinFlatnessLossFunction" /\ Returned("fit")
    /\ self.n_bins = 2
    /\ \E label \in Range(self.uniform_label) : Cardinality(HeldGroups(label)) = 5

(***************************************************************************)
(* The bins of BinsReweighter on their own: one fit of valid data, then    *)
(* predictions.                                                            *)
(***************************************************************************)
EdgeBinsVals == {1, 2, 3}

\* tables of one column and a table row of two columns
EdgeTables ==
    UNION {{[ndim |-> 2, x |-> r] : r \in Vec(n, Vec(1, FeatureVals))} :
           n \in 1..(MaxRowsBins + 1)}
    \cup {[ndim |-> 2, x |-> r] : r \in Vec(1, Vec(2, FeatureVals))}

\* no weights, or the weights 2, 1, 2, ..
EdgeWeights(n) == {None, [i \in 1..n |-> 1 + (i % 2)]}

BinEdgesFit ==
    /\ call.op = "idle" /\ train = None
    /\ \E o \in EdgeTables, t \in EdgeTables :
         \E w \in EdgeWeights(Rows(t)) :
            LET a == [original |-> o, target |-> t, original_weight |-> None,
                      target_weight |-> w]
            IN  /\ train' = [columns |-> Columns(o)]
                /\ Outcome("fit", a, BinsFit(self, a))

BinEdgesPredictWeights ==
    /\ call.op = "idle" /\ train # None
    /\ \E o \in EdgeTables :
         \E w \in EdgeWeights(Rows(o)) :
            LET a == [original |-> o, original_weight |-> w, decision_function |-> None]
            IN  Outcome("predict_weights", a, BinsPredictWeights(self, a))
    /\ UNCHANGED train

NextBinEdges == TakeResult \/ BinEdgesFit \/ BinEdgesPredictWeights

InitBinEdges ==
    /\ python = 3
    /\ cls = "BinsReweighter"
    /\ self \in {BinsInit(n, 3) : n \in EdgeBinsVals}
    /\ train = None
    /\ call = Idle
SpecBinEdges == InitBinEdges /\ [][NextBinEdges]_vars

\* the bin of an event: on every axis the number of stored edges below its value
BinOf(row) ==
    [axis \in DOMAIN self.edges |->
       Cardinality({e \in DOMAIN self.edges[axis] :
                      RLt(self.edges[axis][e], RInt(row[axis]))})]

\* weights divided by their mean; ones when no weights are given
MeanNormalized(weights, n) ==
    IF weights = None THEN [i \in 1..n |-> RInt(1)]
    ELSE [i \in 1..n |->
            RDiv(RInt(n * weights[i]), SetSum(RatVec(weights), 1..n))]

\* C19: fit stores n_bins - 1 edges per feature and a transition table of
\* n_bins cells per axis; a fit of data of matching columns does not fail; the
\* bin of every event is a cell of the table, on, below and above the edges;
\* and predict_weights returns normalized weight * transition[bin]
C19_BinsInRange ==
    /\ (cls = "BinsReweighter" /\ call.op = "fit"
        /\ Columns(call.args.original) = Columns(call.args.target)) =>
          /\ call.status = "return"
          /\ \A axis \in DOMAIN self.edges : Len(self.edges[axis]) = self.n_percentiles - 1
          /\ DOMAIN self.transition =
                [DOMAIN self.edges -> 0..(self.n_percentiles - 1)]
          /\ \A i \in DOMAIN call.args.original.x :
                BinOf(call.args.original.x[i]) \in DOMAIN self.transition
          /\ \A i \in DOMAIN call.args.target.x :
                BinOf(call.args.target.x[i]) \in DOMAIN self.transition
    /\ (cls = "BinsReweighter" /\ call.op = "predict_weights"
        /\ HasAttr(self, "transition")
        /\ Columns(call.args.original) = Len(self.edges)) =>
          /\ call.status = "return"
          /\ DOMAIN call.value = DOMAIN call.args.original.x
          /\ \A i \in DOMAIN call.args.original.x :
                /\ BinOf(call.args.original.x[i]) \in DOMAIN self.transition
                /\ call.value[i] =
                      RMul(MeanNormalized(call.args.original_weight,
                                          Len(call.args.original.x))[i],
                           self.transition[BinOf(call.args.original.x[i])])

C19_Witness ==
    /\ cls = "BinsReweighter" /\ Returned("predict_weights")
    /\ self.n_percentiles = 3
    /\ call.args.original_weight # None
    /\ \E i, j \in DOMAIN call.args.original.x :
          /\ BinOf(call.args.original.x[i]) = <<2>>
          /\ BinOf(call.args.original.x[j]) = <<0>>
          /\ RInt(call.args.original.x[j][1]) \in Range(self.edges[1])
          /\ call.value[i] # call.value[j]
          /\ call.value[i] # RInt(0)

\* C20: every prepare_new_leaves_values returns one value per leaf, a vector
\* of the length of leaf_values, also when the leaves of the highest numbers
\* hold no event, and the leaves without events do not make it fail
C20_OneValuePerLeaf ==
    /\ Returned("prepare_new_leaves_values") =>
          Len(call.value) = Len(call.args.leaf_values)
    /\ (call.op = "prepare_new_leaves_values" /\ call.status = "raise") =>
          call.value # "ValueError"

(***************************************************************************)
(* The trainer's prediction array.  The trainer owns the running           *)
(* prediction and passes the array itself to the queries; train.y_pred is  *)
(* the array of the trainer after the pending call, call.args.y_pred what  *)
(* it held when the call was made.                                         *)
(***************************************************************************)
ArrayQueries == {"__call__", "negative_gradient", "hessian", "prepare_tree_params"}

\* the array passed as y_pred, after the call: __call__, negative_gradient and
\* hessian of RankBoostLossFunction start with y_pred -= y_pred.mean(), which
\* acts on the array of the caller, before any attribute of the fit is read;
\* prepare_tree_params calls negative_gradient and hessian with the same
\* array (a centred array has mean 0, the second subtraction changes nothing);
\* the other classes and prepare_new_leaves_values build new arrays
YPredAfter(c, op, y_pred) ==
    IF c = "RankBoostLossFunction" /\ op \in ArrayQueries THEN Centered(y_pred)
    ELSE RatVec(y_pred)

\* the outcome of a query on the predictions y_pred
ArrayQueryResult(c, obj, op, y_pred) ==
    IF ~HasAll(obj, IF op = "__call__" THEN CallAttrs(c) ELSE QueryAttrs(c))
    THEN Raise(obj, "AttributeError")
    ELSE Return(obj,
                CASE op = "__call__" -> CallOf(c, obj, y_pred)
                  [] op = "negative_gradient" -> NegativeGradientOf(c, obj, y_pred)
                  [] op = "hessian" -> HessianOf(c, obj, y_pred)
                  [] op = "prepare_tree_params" ->
                       IF c = "RankBoostLossFunction"
                       THEN RankBoostPrepareTreeParams(obj, y_pred)
                       ELSE HessianPrepareTreeParams(c, obj, y_pred))

\* fit, before the first round: the trainer starts from zero predictions
TrainerFit ==
    /\ call.op = "idle" /\ train = None
    /\ \E a \in FitArgs(cls, self) :
         /\ train' = [y_pred |-> [i \in DOMAIN a.y |-> RInt(0)]] @@ a
         /\ Outcome("fit", a, DoFit(cls, self, a, python))

\* a query of a round on the array of the trainer
TrainerQuery ==
    /\ Fitted /\ HasQueries
    /\ \E op \in ArrayQueries, y_pred \in Preds :
         /\ Outcome(op, [y_pred |-> y_pred], ArrayQueryResult(cls, self, op, y_pred))
         /\ train' = [train EXCEPT !.y_pred = YPredAfter(cls, op, y_pred)]

\* the leaf update of a round on the array of the trainer
TrainerLeaves ==
    /\ Fitted /\ cls = "RankBoostLossFunction"
    /\ \E a \in LeafArgs :
         /\ Outcome("prepare_new_leaves_values", a,
                    IF ~HasAll(self, QueryAttrs(cls)) THEN Raise(self, "AttributeError")
                    ELSE RankBoostPrepareNewLeavesValues(self, a.terminal_regions,
                                                         a.leaf_values, a.y_pred))
         /\ train' = [train EXCEPT
                         !.y_pred = YPredAfter(cls, "prepare_new_leaves_values", a.y_pred)]

NextTrainer == TakeResult \/ TrainerFit \/ TrainerQuery \/ TrainerLeaves

InitTrainer == InitDerivatives
SpecTrainer == InitTrainer /\ [][NextTrainer]_vars

\* C21: no query of a loss changes the prediction array the trainer passes:
\* after __call__, negative_gradient, hessian, prepare_tree_params and
\* prepare_new_leaves_values the array holds the values it held at the call
C21_QueriesKeepPredictions ==
    call.op \in ArrayQueries \cup {"prepare_new_leaves_values"} =>
        train.y_pred = RatVec(call.args.y_pred)

\* C22: on a BinsReweighter, after every fit and predict_weights call, failed
\* fits included, n_features_ is the number of axes of the stored edges and of
\* the transition table, and a predict_weights call that returns weights used
\* tables fitted for the number of columns of its data
C22_FeaturesMatchTables ==
    (cls = "BinsReweighter" /\ HasAttr(self, "edges")) =>
        /\ self.n_features_ = Some(Len(self.edges))
        /\ HasAttr(self, "transition")
        /\ \A c \in DOMAIN self.transition : Len(c) = Len(self.edges)
        /\ Returned("predict_weights") => Columns(call.args.original) = Len(self.edges)

====
